---- MODULE Spec2Model ----
(***************************************************************************)
(* The LFI probing engine of the VulnWebExtn popup: the indicator          *)
(* detector, the heuristic classifier and the handleRunLfi scan            *)
(* orchestrator, as a state machine whose steps run from one await of the  *)
(* handler to the next.                                                    *)
(*                                                                         *)
(* A string that the code reads character by character (a response body,  *)
(* a parameter name, a line of the wordlist) has its characters in the     *)
(* table Chars, and length, trimming and regular-expression matching are   *)
(* computed on them.  A nullable value (T | null) is <<>> for null and     *)
(* <<v>> for the value v.                                                  *)
(***************************************************************************)
EXTENDS Integers, Sequences, FiniteSets, TLC

Null == <<>>
Some(v) == <<v>>

Abs(x) == IF x < 0 THEN -x ELSE x
Min(a, b) == IF a < b THEN a ELSE b

RECURSIVE SumSeq(_)
SumSeq(s) == IF s = <<>> THEN 0 ELSE Head(s) + SumSeq(Tail(s))

\* Array.from(new Set(s)): the elements of s, each kept at its first occurrence
RECURSIVE Dedup(_)
Dedup(s) ==
  IF s = <<>> THEN <<>>
  ELSE LET r == Dedup(SubSeq(s, 1, Len(s) - 1))
           x == s[Len(s)]
       IN IF \E j \in 1..Len(r) : r[j] = x THEN r ELSE Append(r, x)

----------------------------------------------------------------------------
(* Strings.                                                                *)

\* the strings of the model that are read character by character
Texts == {"", " ", "file", " file", "id", "page", " page ",
          "<html>home</html>", "root:x:0:0:root:/root:/bin/bash",
          "../etc/passwd", "# comment", "  /etc/issue  ", "/etc/issue",
          "/etc/motd"}

\* the characters of a string
Chars(s) ==
  CASE s = "" -> <<>>
    [] s = " " -> <<" ">>
    [] s = "file" -> <<"f", "i", "l", "e">>
    [] s = " file" -> <<" ", "f", "i", "l", "e">>
    [] s = "id" -> <<"i", "d">>
    [] s = "page" -> <<"p", "a", "g", "e">>
    [] s = " page " -> <<" ", "p", "a", "g", "e", " ">>
    [] s = "<html>home</html>" -> <<"<", "h", "t", "m", "l", ">", "h", "o", "m", "e", "<", "/", "h", "t", "m", "l", ">">>
    [] s = "root:x:0:0:root:/root:/bin/bash" -> <<"r", "o", "o", "t", ":", "x", ":", "0", ":", "0", ":", "r", "o", "o", "t", ":", "/", "r", "o", "o", "t", ":", "/", "b", "i", "n", "/", "b", "a", "s", "h">>
    [] s = "../etc/passwd" -> <<".", ".", "/", "e", "t", "c", "/", "p", "a", "s", "s", "w", "d">>
    [] s = "# comment" -> <<"#", " ", "c", "o", "m", "m", "e", "n", "t">>
    [] s = "  /etc/issue  " -> <<" ", " ", "/", "e", "t", "c", "/", "i", "s", "s", "u", "e", " ", " ">>
    [] s = "/etc/issue" -> <<"/", "e", "t", "c", "/", "i", "s", "s", "u", "e">>
    [] s = "/etc/motd" -> <<"/", "e", "t", "c", "/", "m", "o", "t", "d">>
    [] s = "'/api/users'" -> <<"'", "/", "a", "p", "i", "/", "u", "s", "e", "r", "s", "'">>
    [] s = "'/api/users '" -> <<"'", "/", "a", "p", "i", "/", "u", "s", "e", "r", "s", " ", "'">>
    [] s = "fetch('/api/users?id=1'" -> <<"f", "e", "t", "c", "h", "(", "'", "/", "a", "p", "i", "/", "u", "s", "e", "r", "s", "?", "i", "d", "=", "1", "'">>
    [] s = "/api/users?id=1" -> <<"/", "a", "p", "i", "/", "u", "s", "e", "r", "s", "?", "i", "d", "=", "1">>
    [] s = "fetch('/index.php'" -> <<"f", "e", "t", "c", "h", "(", "'", "/", "i", "n", "d", "e", "x", ".", "p", "h", "p", "'">>
    [] s = "/index.php" -> <<"/", "i", "n", "d", "e", "x", ".", "p", "h", "p">>
    [] s = "fetch('/app.js'" -> <<"f", "e", "t", "c", "h", "(", "'", "/", "a", "p", "p", ".", "j", "s", "'">>
    [] s = "/app.js" -> <<"/", "a", "p", "p", ".", "j", "s">>
    [] s = "fetch('/app.js?v=2'" -> <<"f", "e", "t", "c", "h", "(", "'", "/", "a", "p", "p", ".", "j", "s", "?", "v", "=", "2", "'">>
    [] s = "/app.js?v=2" -> <<"/", "a", "p", "p", ".", "j", "s", "?", "v", "=", "2">>
    [] s = "https://example.com/LOGO.PNG" -> <<"h", "t", "t", "p", "s", ":", "/", "/", "e", "x", "a", "m", "p", "l", "e", ".", "c", "o", "m", "/", "L", "O", "G", "O", ".", "P", "N", "G">>
    [] s = ".get('/'" -> <<".", "g", "e", "t", "(", "'", "/", "'">>
    [] s = "/" -> <<"/">>
    [] s = ".get('/?page=2'" -> <<".", "g", "e", "t", "(", "'", "/", "?", "p", "a", "g", "e", "=", "2", "'">>
    [] s = "/?page=2" -> <<"/", "?", "p", "a", "g", "e", "=", "2">>
    [] s = ".get('#top'" -> <<".", "g", "e", "t", "(", "'", "#", "t", "o", "p", "'">>
    [] s = "#top" -> <<"#", "t", "o", "p">>
    [] s = ".get('javascript:void(0)'" -> <<".", "g", "e", "t", "(", "'", "j", "a", "v", "a", "s", "c", "r", "i", "p", "t", ":", "v", "o", "i", "d", "(", "0", ")", "'">>
    [] s = "javascript:void(0)" -> <<"j", "a", "v", "a", "s", "c", "r", "i", "p", "t", ":", "v", "o", "i", "d", "(", "0", ")">>
    [] s = ".get('mailto:a@b.c'" -> <<".", "g", "e", "t", "(", "'", "m", "a", "i", "l", "t", "o", ":", "a", "@", "b", ".", "c", "'">>
    [] s = "mailto:a@b.c" -> <<"m", "a", "i", "l", "t", "o", ":", "a", "@", "b", ".", "c">>
    [] s = ".get('tel:123'" -> <<".", "g", "e", "t", "(", "'", "t", "e", "l", ":", "1", "2", "3", "'">>
    [] s = "/js/app.js" -> <<"/", "j", "s", "/", "a", "p", "p", ".", "j", "s">>
    [] s = "https://cdn.example.com/lib.js" -> <<"h", "t", "t", "p", "s", ":", "/", "/", "c", "d", "n", ".", "e", "x", "a", "m", "p", "l", "e", ".", "c", "o", "m", "/", "l", "i", "b", ".", "j", "s">>
    [] s = "/js/ws.js" -> <<"/", "j", "s", "/", "w", "s", ".", "j", "s">>
    [] s = "Extension context invalidated." -> <<"E", "x", "t", "e", "n", "s", "i", "o", "n", " ", "c", "o", "n", "t", "e", "x", "t", " ", "i", "n", "v", "a", "l", "i", "d", "a", "t", "e", "d", ".">>
    [] s = "CONTEXT INVALIDATED" -> <<"C", "O", "N", "T", "E", "X", "T", " ", "I", "N", "V", "A", "L", "I", "D", "A", "T", "E", "D">>
    [] s = "context invalidated" -> <<"c", "o", "n", "t", "e", "x", "t", " ", "i", "n", "v", "a", "l", "i", "d", "a", "t", "e", "d">>
    [] s = "Receiving end does not exist." -> <<"R", "e", "c", "e", "i", "v", "i", "n", "g", " ", "e", "n", "d", " ", "d", "o", "e", "s", " ", "n", "o", "t", " ", "e", "x", "i", "s", "t", ".">>
    [] s = "Error" -> <<"E", "r", "r", "o", "r">>
    [] s = "tel:123" -> <<"t", "e", "l", ":", "1", "2", "3">>
    [] s = "open('POST', '/api/save'" -> <<"o", "p", "e", "n", "(", "'", "P", "O", "S", "T", "'", ",", " ", "'", "/", "a", "p", "i", "/", "s", "a", "v", "e", "'">>
    [] s = "POST" -> <<"P", "O", "S", "T">>
    [] s = "/api/users" -> <<"/", "a", "p", "i", "/", "u", "s", "e", "r", "s">>

\* the string of a sequence of characters
Str(cs) == CHOOSE s \in Texts : Chars(s) = cs

\* the URL strings of the endpoint scanner
UrlTexts == {"/api/users", "/api/users?id=1", "/index.php", "/app.js", "/app.js?v=2",
             "https://example.com/LOGO.PNG", "/", "/?page=2", "#top", "",
             "javascript:void(0)", "mailto:a@b.c", "tel:123", "POST"}

\* the URL string of a sequence of characters
UrlStr(cs) == CHOOSE s \in UrlTexts : Chars(s) = cs

StrLen(s) == Len(Chars(s))

IsSpace(ch) == ch \in {" ", "\t", "\n", "\r", "\f"}

RECURSIVE TrimStart(_)
TrimStart(cs) == IF cs # <<>> /\ IsSpace(Head(cs)) THEN TrimStart(Tail(cs)) ELSE cs

RECURSIVE TrimEnd(_)
TrimEnd(cs) ==
  IF cs # <<>> /\ IsSpace(cs[Len(cs)]) THEN TrimEnd(SubSeq(cs, 1, Len(cs) - 1)) ELSE cs

\* String.prototype.trim
Trim(s) == Str(TrimEnd(TrimStart(Chars(s))))

\* String.prototype.startsWith, for a one-character prefix
StartsWith(s, ch) == Chars(s) # <<>> /\ Head(Chars(s)) = ch

\* s.slice(0, n) of an array: a negative n counts from the end
SliceTo(s, n) ==
  SubSeq(s, 1, IF n < 0 THEN (IF Len(s) + n > 0 THEN Len(s) + n ELSE 0) ELSE Min(n, Len(s)))

\* s.slice(0, n) for n >= 0, of a string
StrSliceTo(s, n) == Str(SliceTo(Chars(s), n))

----------------------------------------------------------------------------
(* Regular expressions, as far as the indicator table uses them.  A regex  *)
(* is a sequence of alternatives, an alternative a sequence of atoms, an   *)
(* atom a character class with a repetition range or an anchor.  All the   *)
(* table's patterns carry the i flag: literals are written in lower case   *)
(* and the subject character is folded before the comparison.              *)

ToLower(c) ==
  CASE c = "A" -> "a" [] c = "B" -> "b" [] c = "C" -> "c" [] c = "D" -> "d"
    [] c = "E" -> "e" [] c = "F" -> "f" [] c = "G" -> "g" [] c = "H" -> "h"
    [] c = "I" -> "i" [] c = "J" -> "j" [] c = "K" -> "k" [] c = "L" -> "l"
    [] c = "M" -> "m" [] c = "N" -> "n" [] c = "O" -> "o" [] c = "P" -> "p"
    [] c = "Q" -> "q" [] c = "R" -> "r" [] c = "S" -> "s" [] c = "T" -> "t"
    [] c = "U" -> "u" [] c = "V" -> "v" [] c = "W" -> "w" [] c = "X" -> "x"
    [] c = "Y" -> "y" [] c = "Z" -> "z" [] OTHER -> c

Atom(k, c, min, max, inf) == [k |-> k, c |-> c, min |-> min, max |-> max, inf |-> inf]
Lit(s) == [j \in 1..Len(s) |-> Atom("lit", s[j], 1, 1, FALSE)]
\* a literal of a pattern without the i flag
LitCs(s) == [j \in 1..Len(s) |-> Atom("exact", s[j], 1, 1, FALSE)]
Star(cls) == <<Atom(cls, "", 0, 0, TRUE)>>
Plus(cls) == <<Atom(cls, "", 1, 1, TRUE)>>
AtLeast(cls, n) == <<Atom(cls, "", n, n, TRUE)>>
Exactly(cls, n) == <<Atom(cls, "", n, n, FALSE)>>
Bol == <<Atom("bol", "", 0, 0, FALSE)>>
Eol == <<Atom("eol", "", 0, 0, FALSE)>>

InClass(a, ch) ==
  CASE a.k = "lit" -> ToLower(ch) = a.c
    [] a.k = "exact" -> ch = a.c
    [] a.k = "any" -> ch \notin {"\n", "\r"}
    [] a.k = "space" -> ch \in {" ", "\t", "\n", "\r", "\f"}
    [] a.k = "digit" -> ch \in {"0", "1", "2", "3", "4", "5", "6", "7", "8", "9"}
    [] OTHER -> FALSE

\* does the alternative, from its k-th atom on, match s at position pos
RECURSIVE MatchFrom(_, _, _, _)
MatchFrom(atoms, k, s, pos) ==
  IF k > Len(atoms) THEN TRUE
  ELSE LET a == atoms[k]
           rest == Len(s) - pos + 1
           hi == IF a.inf THEN rest ELSE Min(a.max, rest)
       IN CASE a.k = "bol" -> pos = 1 /\ MatchFrom(atoms, k + 1, s, pos)
            [] a.k = "eol" -> pos = Len(s) + 1 /\ MatchFrom(atoms, k + 1, s, pos)
            [] OTHER ->
                 \E n \in a.min..hi :
                    /\ \A j \in 0..(n - 1) : InClass(a, s[pos + j])
                    /\ MatchFrom(atoms, k + 1, s, pos + n)

\* RegExp.prototype.test of a regex without the g flag
RegexTest(regex, s) ==
  \E a \in 1..Len(regex) : \E pos \in 1..(Len(s) + 1) : MatchFrom(regex[a], 1, s, pos)

----------------------------------------------------------------------------
(* detectLfiIndicators: the signature table and the linear scan over it.   *)

LfiIndicators == <<
  \* /root:x:0:0:|:\/bin\/(bash|sh|csh|zsh)|daemon:x:/i
  [label |-> "etc/passwd", regex |-> <<
      Lit(<<"r", "o", "o", "t", ":", "x", ":", "0", ":", "0", ":">>),
      Lit(<<":", "/", "b", "i", "n", "/", "b", "a", "s", "h">>),
      Lit(<<":", "/", "b", "i", "n", "/", "s", "h">>),
      Lit(<<":", "/", "b", "i", "n", "/", "c", "s", "h">>),
      Lit(<<":", "/", "b", "i", "n", "/", "z", "s", "h">>),
      Lit(<<"d", "a", "e", "m", "o", "n", ":", "x", ":">>)
    >>],
  \* /root:.*:1[0-9]{4,}:/i
  [label |-> "etc/shadow", regex |-> <<
      Lit(<<"r", "o", "o", "t", ":">>) \o Star("any") \o Lit(<<":", "1">>) \o AtLeast("digit", 4) \o Lit(<<":">>)
    >>],
  \* /127\.0\.0\.1\s+localhost|::1\s+localhost/i
  [label |-> "Unix hosts file", regex |-> <<
      Lit(<<"1", "2", "7", ".", "0", ".", "0", ".", "1">>) \o Plus("space") \o Lit(<<"l", "o", "c", "a", "l", "h", "o", "s", "t">>),
      Lit(<<":", ":", "1">>) \o Plus("space") \o Lit(<<"l", "o", "c", "a", "l", "h", "o", "s", "t">>)
    >>],
  \* /PATH=|HOME=|SHELL=|USER=|PWD=/i
  [label |-> "proc/environ", regex |-> <<
      Lit(<<"p", "a", "t", "h", "=">>),
      Lit(<<"h", "o", "m", "e", "=">>),
      Lit(<<"s", "h", "e", "l", "l", "=">>),
      Lit(<<"u", "s", "e", "r", "=">>),
      Lit(<<"p", "w", "d", "=">>)
    >>],
  \* /Linux version \d+\.\d+\.\d+/i
  [label |-> "proc/version", regex |-> <<
      Lit(<<"l", "i", "n", "u", "x", " ", "v", "e", "r", "s", "i", "o", "n", " ">>) \o Plus("digit") \o Lit(<<".">>) \o Plus("digit") \o Lit(<<".">>) \o Plus("digit")
    >>],
  \* /\[fonts\]|\[extensions\]|\[mci extensions\]|\[drivers\]|for 16-bit app support/i
  [label |-> "Windows win.ini", regex |-> <<
      Lit(<<"[", "f", "o", "n", "t", "s", "]">>),
      Lit(<<"[", "e", "x", "t", "e", "n", "s", "i", "o", "n", "s", "]">>),
      Lit(<<"[", "m", "c", "i", " ", "e", "x", "t", "e", "n", "s", "i", "o", "n", "s", "]">>),
      Lit(<<"[", "d", "r", "i", "v", "e", "r", "s", "]">>),
      Lit(<<"f", "o", "r", " ", "1", "6", "-", "b", "i", "t", " ", "a", "p", "p", " ", "s", "u", "p", "p", "o", "r", "t">>)
    >>],
  \* /\[boot loader\]|\[operating systems\]|multi\(0\)disk/i
  [label |-> "Windows boot.ini", regex |-> <<
      Lit(<<"[", "b", "o", "o", "t", " ", "l", "o", "a", "d", "e", "r", "]">>),
      Lit(<<"[", "o", "p", "e", "r", "a", "t", "i", "n", "g", " ", "s", "y", "s", "t", "e", "m", "s", "]">>),
      Lit(<<"m", "u", "l", "t", "i", "(", "0", ")", "d", "i", "s", "k">>)
    >>],
  \* /127\.0\.0\.1\s+localhost.*::1/i
  [label |-> "Windows hosts", regex |-> <<
      Lit(<<"1", "2", "7", ".", "0", ".", "0", ".", "1">>) \o Plus("space") \o Lit(<<"l", "o", "c", "a", "l", "h", "o", "s", "t">>) \o Star("any") \o Lit(<<":", ":", "1">>)
    >>],
  \* /<\?php|<\?=|phpinfo\(\)|echo\s+\$_/i
  [label |-> "PHP source", regex |-> <<
      Lit(<<"<", "?", "p", "h", "p">>),
      Lit(<<"<", "?", "=">>),
      Lit(<<"p", "h", "p", "i", "n", "f", "o", "(", ")">>),
      Lit(<<"e", "c", "h", "o">>) \o Plus("space") \o Lit(<<"$", "_">>)
    >>],
  \* /<Directory|LoadModule|ServerRoot/i
  [label |-> "Apache config", regex |-> <<
      Lit(<<"<", "d", "i", "r", "e", "c", "t", "o", "r", "y">>),
      Lit(<<"l", "o", "a", "d", "m", "o", "d", "u", "l", "e">>),
      Lit(<<"s", "e", "r", "v", "e", "r", "r", "o", "o", "t">>)
    >>],
  \* /Host \*|IdentityFile|UserKnownHostsFile/i
  [label |-> "SSH config", regex |-> <<
      Lit(<<"h", "o", "s", "t", " ", "*">>),
      Lit(<<"i", "d", "e", "n", "t", "i", "t", "y", "f", "i", "l", "e">>),
      Lit(<<"u", "s", "e", "r", "k", "n", "o", "w", "n", "h", "o", "s", "t", "s", "f", "i", "l", "e">>)
    >>],
  \* /\[mysqld\]|\[client\]|datadir=/i
  [label |-> "MySQL config", regex |-> <<
      Lit(<<"[", "m", "y", "s", "q", "l", "d", "]">>),
      Lit(<<"[", "c", "l", "i", "e", "n", "t", "]">>),
      Lit(<<"d", "a", "t", "a", "d", "i", "r", "=">>)
    >>],
  \* /^#\d{10}$|^ls\s|^cd\s|^cat\s/i
  [label |-> "Bash history", regex |-> <<
      Bol \o Lit(<<"#">>) \o Exactly("digit", 10) \o Eol,
      Bol \o Lit(<<"l", "s">>) \o Exactly("space", 1),
      Bol \o Lit(<<"c", "d">>) \o Exactly("space", 1),
      Bol \o Lit(<<"c", "a", "t">>) \o Exactly("space", 1)
    >>],
  \* /Warning:.*include|Failed opening.*for inclusion|No such file or directory/i
  [label |-> "Error disclosure", regex |-> <<
      Lit(<<"w", "a", "r", "n", "i", "n", "g", ":">>) \o Star("any") \o Lit(<<"i", "n", "c", "l", "u", "d", "e">>),
      Lit(<<"f", "a", "i", "l", "e", "d", " ", "o", "p", "e", "n", "i", "n", "g">>) \o Star("any") \o Lit(<<"f", "o", "r", " ", "i", "n", "c", "l", "u", "s", "i", "o", "n">>),
      Lit(<<"n", "o", " ", "s", "u", "c", "h", " ", "f", "i", "l", "e", " ", "o", "r", " ", "d", "i", "r", "e", "c", "t", "o", "r", "y">>)
    >>]
  >>

detectLfiIndicators(body) ==
  LET RECURSIVE Scan(_)
      Scan(n) ==
        IF n = 0 THEN <<>>
        ELSE Scan(n - 1) \o
             (IF RegexTest(LfiIndicators[n].regex, Chars(body))
              THEN <<LfiIndicators[n].label>> ELSE <<>>)
  IN Scan(Len(LfiIndicators))

----------------------------------------------------------------------------
(* analyzeLfiHeuristics.  diffRatio > 0.3 is decided on the integers:      *)
(* |length - baselineLength| / baselineLength > 0.3 in IEEE doubles holds   *)
(* exactly when 10 * |length - baselineLength| > 3 * baselineLength for    *)
(* every pair of string lengths (the quotient of two integers below 2^53   *)
(* is correctly rounded and 0.3 denotes the double nearest to 3/10).       *)

Verdict(d, c) == [detection |-> d, confidence |-> c]

\* rule 2 tested before rule 1
analyzeLfiHeuristics_LengthFirst(indicators, baselineStatus, baselineLength, status, length) ==
  IF /\ baselineLength # Null
     /\ baselineLength[1] > 0
     /\ 10 * Abs(length - baselineLength[1]) > 3 * baselineLength[1]
  THEN Verdict("POSSIBLE_LFI", "Medium")
  ELSE IF Len(indicators) > 0
  THEN Verdict("CONFIRMED_LFI", "High")
  ELSE IF baselineStatus # Null /\ baselineStatus[1] # status
  THEN Verdict("SUSPICIOUS", "Low")
  ELSE Verdict("NOT_VULNERABLE", "Low")

\* diffRatio >= 0.3 in place of diffRatio > 0.3
analyzeLfiHeuristics_AtLeast30(indicators, baselineStatus, baselineLength, status, length) ==
  IF Len(indicators) > 0
  THEN Verdict("CONFIRMED_LFI", "High")
  ELSE IF /\ baselineLength # Null
          /\ baselineLength[1] > 0
          /\ 10 * Abs(length - baselineLength[1]) >= 3 * baselineLength[1]
  THEN Verdict("POSSIBLE_LFI", "Medium")
  ELSE IF baselineStatus # Null /\ baselineStatus[1] # status
  THEN Verdict("SUSPICIOUS", "Low")
  ELSE Verdict("NOT_VULNERABLE", "Low")

\* baselineStatus === status in place of baselineStatus !== status
analyzeLfiHeuristics_StatusEqual(indicators, baselineStatus, baselineLength, status, length) ==
  IF Len(indicators) > 0
  THEN Verdict("CONFIRMED_LFI", "High")
  ELSE IF /\ baselineLength # Null
          /\ baselineLength[1] > 0
          /\ 10 * Abs(length - baselineLength[1]) > 3 * baselineLength[1]
  THEN Verdict("POSSIBLE_LFI", "Medium")
  ELSE IF baselineStatus # Null /\ baselineStatus[1] = status
  THEN Verdict("SUSPICIOUS", "Low")
  ELSE Verdict("NOT_VULNERABLE", "Low")

\* baselineStatus !== status without the null test before it
analyzeLfiHeuristics_NoNullTest(indicators, baselineStatus, baselineLength, status, length) ==
  IF Len(indicators) > 0
  THEN Verdict("CONFIRMED_LFI", "High")
  ELSE IF /\ baselineLength # Null
          /\ baselineLength[1] > 0
          /\ 10 * Abs(length - baselineLength[1]) > 3 * baselineLength[1]
  THEN Verdict("POSSIBLE_LFI", "Medium")
  ELSE IF baselineStatus # Some(status)
  THEN Verdict("SUSPICIOUS", "Low")
  ELSE Verdict("NOT_VULNERABLE", "Low")

analyzeLfiHeuristics(indicators, baselineStatus, baselineLength, status, length) ==
  IF Len(indicators) > 0
  THEN Verdict("CONFIRMED_LFI", "High")
  ELSE IF /\ baselineLength # Null
          /\ baselineLength[1] > 0
          /\ 10 * Abs(length - baselineLength[1]) > 3 * baselineLength[1]
  THEN Verdict("POSSIBLE_LFI", "Medium")
  ELSE IF baselineStatus # Null /\ baselineStatus[1] # status
  THEN Verdict("SUSPICIOUS", "Low")
  ELSE Verdict("NOT_VULNERABLE", "Low")

----------------------------------------------------------------------------
(* lfiPayloads: the static category table and buildLfiPayloadList.         *)

LFI_PAYLOAD_CATEGORIES == <<
  [id |-> "basic-traversal", payloads |-> <<
      "../etc/passwd",
      "../../etc/passwd",
      "../etc/hosts",
      "../../etc/hosts",
      "../proc/self/environ",
      "../../proc/self/environ"
    >>],
  [id |-> "deep-traversal", payloads |-> <<
      "../../../../etc/passwd",
      "../../../../../etc/passwd",
      "../../../../etc/hosts",
      "../../../../../etc/hosts",
      "../../../../proc/self/environ",
      "../../../../../proc/self/environ",
      "../../../../windows/win.ini",
      "../../../../../windows/win.ini"
    >>],
  [id |-> "null-byte", payloads |-> <<
      "../../etc/passwd%00",
      "../../etc/passwd%2500",
      "../../../../etc/passwd%00",
      "../../../../etc/passwd%2500"
    >>],
  [id |-> "encoding-bypass", payloads |-> <<
      "..%2f..%2fetc%2fpasswd",
      "..%2F..%2Fetc%2Fpasswd",
      "%2e%2e/%2e%2e/etc/passwd",
      "..%252f..%252fetc%252fpasswd",
      "..%c0%af..%c0%afetc%c0%afpasswd"
    >>],
  [id |-> "os-linux", payloads |-> <<
      "/etc/passwd",
      "/etc/shadow",
      "/etc/hosts",
      "/proc/self/environ",
      "/proc/version"
    >>],
  [id |-> "os-windows", payloads |-> <<
      "C:/Windows/win.ini",
      "C:/windows/win.ini",
      "C:/Windows/System32/drivers/etc/hosts",
      "C:/windows/system32/drivers/etc/hosts",
      "C:/boot.ini"
    >>]
  >>

RECURSIVE FlatPayloads(_)
FlatPayloads(cats) ==
  IF cats = <<>> THEN <<>> ELSE Head(cats).payloads \o FlatPayloads(Tail(cats))

RECURSIVE CategoriesIn(_, _)
CategoriesIn(cats, categoryIds) ==
  IF cats = <<>> THEN <<>>
  ELSE (IF \E j \in 1..Len(categoryIds) : categoryIds[j] = Head(cats).id
        THEN <<Head(cats)>> ELSE <<>>) \o CategoriesIn(Tail(cats), categoryIds)

\* the categories are taken in the order of the argument
buildLfiPayloadList_ArgumentOrder(categoryIds) ==
  LET categoriesToUse ==
        IF Len(categoryIds) > 0
        THEN [j \in 1..Len(categoryIds) |->
                LFI_PAYLOAD_CATEGORIES[CHOOSE c \in 1..Len(LFI_PAYLOAD_CATEGORIES) :
                                          LFI_PAYLOAD_CATEGORIES[c].id = categoryIds[j]]]
        ELSE LFI_PAYLOAD_CATEGORIES
  IN Dedup(FlatPayloads(categoriesToUse))

\* the selection is ignored
buildLfiPayloadList_IgnoresSelection(categoryIds) ==
  Dedup(FlatPayloads(LFI_PAYLOAD_CATEGORIES))

\* categoryIds is <<>> when the argument is omitted or the empty array
buildLfiPayloadList(categoryIds) ==
  LET categoriesToUse ==
        IF Len(categoryIds) > 0
        THEN CategoriesIn(LFI_PAYLOAD_CATEGORIES, categoryIds)
        ELSE LFI_PAYLOAD_CATEGORIES
  IN Dedup(FlatPayloads(categoriesToUse))

----------------------------------------------------------------------------
(* URLSearchParams and buildLfiTestUrls.                                   *)

\* searchParams is a sequence of [k, v] pairs
ParamKeys(q) == [j \in 1..Len(q) |-> q[j].k]

RECURSIVE SearchGet(_, _)
SearchGet(q, name) ==
  IF q = <<>> THEN Null
  ELSE IF Head(q).k = name THEN Some(Head(q).v) ELSE SearchGet(Tail(q), name)

RECURSIVE WithoutKey(_, _)
WithoutKey(q, name) ==
  IF q = <<>> THEN <<>>
  ELSE (IF Head(q).k = name THEN <<>> ELSE <<Head(q)>>) \o WithoutKey(Tail(q), name)

SearchAppend(q, name, value) == Append(q, [k |-> name, v |-> value])

\* URLSearchParams.set: the first pair named name takes the value, the
\* other pairs of that name are deleted; appended when there is none
RECURSIVE SearchSet(_, _, _)
SearchSet(q, name, value) ==
  IF q = <<>> THEN <<[k |-> name, v |-> value]>>
  ELSE IF Head(q).k = name
       THEN <<[k |-> name, v |-> value]>> \o WithoutKey(Tail(q), name)
       ELSE <<Head(q)>> \o SearchSet(Tail(q), name, value)

\* the parameter is appended even when the URL has it
buildLfiTestUrls_AlwaysAppends(baseUrl, param, payloads) ==
  [j \in 1..Len(payloads) |->
     [url |-> [base |-> baseUrl.base,
               query |-> SearchAppend(baseUrl.query, param, payloads[j])],
      payload |-> payloads[j]]]

\* a parsed URL is [base, query]: origin and path, and its searchParams
buildLfiTestUrls(baseUrl, param, payloads) ==
  LET hasParam == \E j \in 1..Len(baseUrl.query) : ParamKeys(baseUrl.query)[j] = param
  IN [j \in 1..Len(payloads) |->
        [url |-> [base |-> baseUrl.base,
                  query |-> IF hasParam
                            THEN SearchSet(baseUrl.query, param, payloads[j])
                            ELSE SearchAppend(baseUrl.query, param, payloads[j])],
         payload |-> payloads[j]]]

----------------------------------------------------------------------------
(* scrape-website: the endpoint extractor.  A text is given by the matches *)
(* its sixteen patterns find in it, pattern after pattern and for one      *)
(* pattern from left to right: the number of the pattern, match[0],        *)
(* match[1] (Null when the pattern has no group) and the line of the match.*)

Match(pattern, whole, group, line) ==
  [pattern |-> pattern, whole |-> whole, group |-> group, line |-> line]

\* String.prototype.includes, on characters
Includes(cs, sub) ==
  \E pos \in 1..(Len(cs) - Len(sub) + 1) : SubSeq(cs, pos, pos + Len(sub) - 1) = sub

\* s.split(ch)[0], on characters
BeforeFirst(cs, ch) ==
  IF \E j \in 1..Len(cs) : cs[j] = ch
  THEN SubSeq(cs, 1, (CHOOSE j \in 1..Len(cs) :
                        cs[j] = ch /\ \A k \in 1..(j - 1) : cs[k] # ch) - 1)
  ELSE cs

\* url.replace(/["']/g, ''), on characters
WithoutQuotes(cs) ==
  LET NotQuote(ch) == ch \notin {"\"", "'"}
  IN SelectSeq(cs, NotQuote)

excludePatterns == <<
  \* /^#/
  <<Bol \o LitCs(<<"#">>)>>,
  \* /^javascript:/
  <<Bol \o LitCs(<<"j", "a", "v", "a", "s", "c", "r", "i", "p", "t", ":">>)>>,
  \* /^mailto:/
  <<Bol \o LitCs(<<"m", "a", "i", "l", "t", "o", ":">>)>>,
  \* /^tel:/
  <<Bol \o LitCs(<<"t", "e", "l", ":">>)>>,
  \* /\.(css|js|png|jpg|jpeg|gif|svg|ico|woff|woff2|ttf|eot)$/i
  <<  Lit(<<".">>) \o Lit(<<"c", "s", "s">>) \o Eol,
      Lit(<<".">>) \o Lit(<<"j", "s">>) \o Eol,
      Lit(<<".">>) \o Lit(<<"p", "n", "g">>) \o Eol,
      Lit(<<".">>) \o Lit(<<"j", "p", "g">>) \o Eol,
      Lit(<<".">>) \o Lit(<<"j", "p", "e", "g">>) \o Eol,
      Lit(<<".">>) \o Lit(<<"g", "i", "f">>) \o Eol,
      Lit(<<".">>) \o Lit(<<"s", "v", "g">>) \o Eol,
      Lit(<<".">>) \o Lit(<<"i", "c", "o">>) \o Eol,
      Lit(<<".">>) \o Lit(<<"w", "o", "f", "f">>) \o Eol,
      Lit(<<".">>) \o Lit(<<"w", "o", "f", "f", "2">>) \o Eol,
      Lit(<<".">>) \o Lit(<<"t", "t", "f">>) \o Eol,
      Lit(<<".">>) \o Lit(<<"e", "o", "t">>) \o Eol
    >>,
  \* /^\/$/
  <<Bol \o LitCs(<<"/">>) \o Eol>>,
  \* /^\/\s*$/
  <<Bol \o LitCs(<<"/">>) \o Star("space") \o Eol>>
  >>

isValidEndpoint_KeepsStatic(url) ==
  ~\E j \in 1..Len(excludePatterns) \ {5} : RegexTest(excludePatterns[j], Chars(url))

isValidEndpoint(url) ==
  ~\E j \in 1..Len(excludePatterns) : RegexTest(excludePatterns[j], Chars(url))

\* url.split('?')[0].split('#')[0]
normalizeUrl(url) == UrlStr(BeforeFirst(BeforeFirst(Chars(url), "?"), "#"))

\* /\.(html|htm|php|asp|aspx)$/i
PagePattern == <<
      Lit(<<".">>) \o Lit(<<"h", "t", "m", "l">>) \o Eol,
      Lit(<<".">>) \o Lit(<<"h", "t", "m">>) \o Eol,
      Lit(<<".">>) \o Lit(<<"p", "h", "p">>) \o Eol,
      Lit(<<".">>) \o Lit(<<"a", "s", "p">>) \o Eol,
      Lit(<<".">>) \o Lit(<<"a", "s", "p", "x">>) \o Eol
  >>

\* /\.(js|css|png|jpg|jpeg|gif|svg|ico|woff|woff2|ttf|eot)$/i
StaticPattern == <<
      Lit(<<".">>) \o Lit(<<"j", "s">>) \o Eol,
      Lit(<<".">>) \o Lit(<<"c", "s", "s">>) \o Eol,
      Lit(<<".">>) \o Lit(<<"p", "n", "g">>) \o Eol,
      Lit(<<".">>) \o Lit(<<"j", "p", "g">>) \o Eol,
      Lit(<<".">>) \o Lit(<<"j", "p", "e", "g">>) \o Eol,
      Lit(<<".">>) \o Lit(<<"g", "i", "f">>) \o Eol,
      Lit(<<".">>) \o Lit(<<"s", "v", "g">>) \o Eol,
      Lit(<<".">>) \o Lit(<<"i", "c", "o">>) \o Eol,
      Lit(<<".">>) \o Lit(<<"w", "o", "f", "f">>) \o Eol,
      Lit(<<".">>) \o Lit(<<"w", "o", "f", "f", "2">>) \o Eol,
      Lit(<<".">>) \o Lit(<<"t", "t", "f">>) \o Eol,
      Lit(<<".">>) \o Lit(<<"e", "o", "t">>) \o Eol
  >>

categorizeEndpoint(url) ==
  IF \/ Includes(Chars(url), <<"/", "a", "p", "i", "/">>)
     \/ Includes(Chars(url), <<"/", "v", "1", "/">>)
     \/ Includes(Chars(url), <<"/", "v", "2", "/">>)
  THEN "api"
  ELSE IF RegexTest(PagePattern, Chars(url)) THEN "page"
  ELSE IF RegexTest(StaticPattern, Chars(url)) THEN "static"
  ELSE "unknown"

\* match[0].includes('GET') ... 'POST' ... 'PUT' ... 'DELETE', case-sensitive
MethodOf(whole) ==
  IF Includes(Chars(whole), <<"G", "E", "T">>) THEN Some("GET")
  ELSE IF Includes(Chars(whole), <<"P", "O", "S", "T">>) THEN Some("POST")
  ELSE IF Includes(Chars(whole), <<"P", "U", "T">>) THEN Some("PUT")
  ELSE IF Includes(Chars(whole), <<"D", "E", "L", "E", "T", "E">>) THEN Some("DELETE")
  ELSE Null

\* (match[1] || match[0]).replace(/["']/g, '').trim()
CleanUrl(m) ==
  LET raw == IF m.group # Null /\ m.group[1] # "" THEN m.group[1] ELSE m.whole
  IN UrlStr(TrimEnd(TrimStart(WithoutQuotes(Chars(raw)))))

\* the body of the while loop: what one match pushes
EndpointsOfMatch(m, source) ==
  LET url == CleanUrl(m)
  IN IF url # "" /\ isValidEndpoint(url)
     THEN <<[url |-> normalizeUrl(url), type |-> categorizeEndpoint(url),
             source |-> source, line |-> m.line, method |-> MethodOf(m.whole)]>>
     ELSE <<>>

RECURSIVE extractEndpointsFromText(_, _)
extractEndpointsFromText(text, source) ==
  IF text = <<>> THEN <<>>
  ELSE EndpointsOfMatch(Head(text), source) \o extractEndpointsFromText(Tail(text), source)

uniqueEndpoints_KeepsLast(endpoints) ==
  LET IsLast(j) == \A k \in (j + 1)..Len(endpoints) : endpoints[k].url # endpoints[j].url
      kept == {j \in 1..Len(endpoints) : IsLast(j)}
      RECURSIVE From(_)
      From(j) == IF j > Len(endpoints) THEN <<>>
                 ELSE (IF j \in kept THEN <<endpoints[j]>> ELSE <<>>) \o From(j + 1)
  IN From(1)

\* endpoints.filter((endpoint, index, self) =>
\*   index === self.findIndex(e => e.url === endpoint.url))
uniqueEndpoints(endpoints) ==
  LET IsFirst(j) == \A k \in 1..(j - 1) : endpoints[k].url # endpoints[j].url
      kept == {j \in 1..Len(endpoints) : IsFirst(j)}
      RECURSIVE From(_)
      From(j) == IF j > Len(endpoints) THEN <<>>
                 ELSE (IF j \in kept THEN <<endpoints[j]>> ELSE <<>>) \o From(j + 1)
  IN From(1)

----------------------------------------------------------------------------
(* Bounds of the model and the inputs it draws.                            *)

\* the largest payload cap the user types (payloadCap is otherwise 500)
MaxPayloads == 3
\* a scan is started only when |paramsToTest| * |payloadList| <= MaxTests
MaxTests == 4
\* the classifier is applied to lengths 0..MaxLen, 100 and 1000
MaxLen == 13

\* buildLfiPayloadList is applied to lists of at most MaxIds category ids
MaxIds == 3

DefaultPayloadCap == 500
SampleLen == 300

\* response bodies a server sends
HomePage == "<html>home</html>"
PasswdPage == "root:x:0:0:root:/root:/bin/bash"
Bodies == {HomePage, PasswdPage}
Statuses == {200, 404}

\* Response.ok
IsOk(status) == 200 <= status /\ status <= 299

\* the lines of the fetched LFI-Jhaddix.txt, text.split(/\r?\n/)
ExternalLines ==
  <<"../etc/passwd", "# comment", "  /etc/issue  ", "", "/etc/motd", "/etc/issue">>

\* What the user typed into a URL field: blank when it trims to "", query
\* the searchParams new URL(text) gives, Null when new URL(text) throws.
UrlText(href, base, blank, query) ==
  [href |-> href, base |-> base, blank |-> blank, query |-> query]
U_blank == UrlText("  ", "", TRUE, Null)
U_relative == UrlText("example.com/index.php?file=home.php", "", FALSE, Null)
U_noquery == UrlText("https://example.com/", "https://example.com/", FALSE, Some(<<>>))
U_file ==
  UrlText("https://example.com/index.php?file=home.php", "https://example.com/index.php",
          FALSE, Some(<<[k |-> "file", v |-> "home.php"]>>))
U_multi ==
  UrlText("https://example.com/view?id=1&%20=x&id=2&+file=a", "https://example.com/view",
          FALSE, Some(<<[k |-> "id", v |-> "1"], [k |-> " ", v |-> "x"],
                        [k |-> "id", v |-> "2"], [k |-> " file", v |-> "a"]>>))
\* a query whose only key is blank
U_blankkey ==
  UrlText("https://example.com/?%20=x", "https://example.com/", FALSE,
          Some(<<[k |-> " ", v |-> "x"]>>))
LfiUrlInputs == {U_blank, U_relative, U_noquery, U_blankkey, U_file, U_multi}
UrlInputs == {U_blank, U_file}
\* "file" is the field's initial value
LfiParamInputs == {"file", "", " page "}
\* a negative number typed into the Payload Limit field (min and max do not
\* stop what is typed, and Number(value) || 500 keeps it): the one that
\* leaves the first payload of the catalog
NegativeCap == 1 - Len(buildLfiPayloadList(<<>>))
PayloadCapInputs == {DefaultPayloadCap, NegativeCap} \cup 1..MaxPayloads
\* what the user retypes the LFI URL field to between two scans: a text that
\* is not an absolute URL
LfiUrlEdits == {U_relative}

----------------------------------------------------------------------------
VARIABLES
  url,              \* the endpoint scanner's URL field
  lfiUrl,           \* the LFI scanner's URL field
  lfiParam,         \* the LFI scanner's parameter field
  payloadCap,
  wordlist,
  wordlistLoading,
  error,
  lfiLoading,
  lfiResults,       \* LfiScanSummary | null
  currentProgress,
  pc,               \* where handleRunLfi stands: idle, or the await it is at
  scan,             \* the locals of the running handleRunLfi
  timer,            \* fetchWithTimeout's abort timer is armed
  res,              \* how the latest fetch of the scan settled
  net,              \* the fetches of the current scan, counted
  call              \* a call of analyzeLfiHeuristics: its arguments and result

inputVars == <<url, lfiUrl, lfiParam, payloadCap>>
wordlistVars == <<wordlist, wordlistLoading>>
uiVars == <<error, lfiLoading, lfiResults, currentProgress>>
runVars == <<pc, scan, timer, res, net>>
vars == <<url, lfiUrl, lfiParam, payloadCap, wordlist, wordlistLoading, error,
          lfiLoading, lfiResults, currentProgress, pc, scan, timer, res, net, call>>

NoProgress == [current |-> 0, total |-> 0]
NoScan == [targetUrl |-> "", parsedUrl |-> [base |-> "", query |-> <<>>],
           paramsToTest |-> <<>>, originalValues |-> <<>>, payloadList |-> <<>>,
           total |-> 0, currentIndex |-> 0,
           baselineStatus |-> Null, baselineLength |-> Null,
           p |-> 1, i |-> 0, paramVulnerableCount |-> 0,
           results |-> <<>>, perParameterSummary |-> <<>>]
NoRes == [of |-> "none", kind |-> "none", status |-> 0, body |-> "", bodyRead |-> "none"]
\* failed: the (parameter index, payload index) pairs whose fetch rejected;
\* fetched: the pairs whose test URL was fetched, in the order of the fetches;
\* baselineUrl: the URL the baseline fetch was given; baselineSettled: how
\* that fetch settled, "response" or "rejected", "" before
NoNet == [baseline |-> 0, probes |-> 0, resolved |-> 0, rejected |-> 0, failed |-> {},
          fetched |-> <<>>, baselineUrl |-> "", baselineSettled |-> ""]
NoCall == [fn |-> "none", args |-> <<>>, ret |-> Null]

\* The popup as constructed (useState), with the fields as the user filled
\* them: the fields are typed before the scans of a behaviour and then left
\* alone, and the wordlist is still loading.
PopupInit(u, l, pm, cap) ==
  /\ url = u
  /\ lfiUrl = l
  /\ lfiParam = pm
  /\ payloadCap = cap
  /\ wordlist = <<>>
  /\ wordlistLoading = TRUE
  /\ error = ""
  /\ lfiLoading = FALSE
  /\ lfiResults = Null
  /\ currentProgress = NoProgress
  /\ pc = "idle"
  /\ scan = NoScan
  /\ timer = FALSE
  /\ res = NoRes
  /\ net = NoNet

Init ==
  /\ \E u \in UrlInputs, l \in LfiUrlInputs, pm \in LfiParamInputs, cap \in PayloadCapInputs :
        PopupInit(u, l, pm, cap)
  /\ call = NoCall

----------------------------------------------------------------------------
(* loadWordlist, the effect run on mount.                                  *)

RECURSIVE WordlistLines(_)
WordlistLines(lines) ==
  IF lines = <<>> THEN <<>>
  ELSE LET line == Trim(Head(lines))
       IN (IF line # "" /\ ~StartsWith(line, "#") THEN <<line>> ELSE <<>>)
          \o WordlistLines(Tail(lines))

\* the two lists are joined as they are
LoadWordlistFetched_NoDedup ==
  /\ wordlistLoading
  /\ wordlist' = buildLfiPayloadList(<<>>) \o WordlistLines(ExternalLines)
  /\ wordlistLoading' = FALSE
  /\ UNCHANGED <<inputVars, uiVars, runVars, call>>

\* response.ok: the list is the catalog and the fetched lines, deduplicated
LoadWordlistFetched ==
  /\ wordlistLoading
  /\ wordlist' = Dedup(buildLfiPayloadList(<<>>) \o WordlistLines(ExternalLines))
  /\ wordlistLoading' = FALSE
  /\ UNCHANGED <<inputVars, uiVars, runVars, call>>

\* the fetch rejects or is not ok: the catalog alone
LoadWordlistFailed ==
  /\ wordlistLoading
  /\ wordlist' = buildLfiPayloadList(<<>>)
  /\ wordlistLoading' = FALSE
  /\ UNCHANGED <<inputVars, uiVars, runVars, call>>

\* onChange of the LFI URL field: setLfiUrl(e.target.value).  The field is
\* retyped while no scan runs (a running scan reads its own targetUrl, taken
\* at the click).
SetLfiUrl(u) ==
  /\ pc = "idle"
  /\ lfiUrl # u
  /\ lfiUrl' = u
  /\ UNCHANGED <<url, lfiParam, payloadCap, wordlistVars, uiVars, runVars, call>>

----------------------------------------------------------------------------
(* handleRunLfi.  fetchWithTimeout arms the abort timer, awaits fetch and  *)
(* clears the timer in its finally block, when fetch settles: with the     *)
(* response's status line and headers, before any of the body is read.     *)

RECURSIVE NonBlankTrimmed(_)
NonBlankTrimmed(names) ==
  IF names = <<>> THEN <<>>
  ELSE (IF StrLen(Trim(Head(names))) > 0 THEN <<Trim(Head(names))>> ELSE <<>>)
       \o NonBlankTrimmed(Tail(names))

\* the messages handleRunLfi hands to setError
ErrNoUrl == "Enter a URL for LFI scan or run endpoint scan first"
ErrInvalidUrl == "Please enter a valid URL (e.g., https://example.com)"
ErrWordlist == "Wordlist not loaded yet. Please wait..."
ErrNoParameters == "No query parameters found to test for LFI. Add parameters to the URL or specify a parameter name."

\* lfiUrl.trim() || url.trim()
TargetUrl == IF ~lfiUrl.blank THEN lfiUrl ELSE url

\* a key that occurs twice is tested twice
ParamsToTest_NoDedup(parsedUrl) ==
  LET discoveredParams == NonBlankTrimmed(ParamKeys(parsedUrl.query))
  IN IF Trim(lfiParam) # "" THEN <<Trim(lfiParam)>> ELSE discoveredParams

\* blank names are kept
ParamsToTest_KeepsBlankNames(parsedUrl) ==
  LET discoveredParams == ParamKeys(parsedUrl.query)
      uniqueDiscoveredParams == Dedup(discoveredParams)
  IN IF Trim(lfiParam) # "" THEN <<Trim(lfiParam)>> ELSE uniqueDiscoveredParams

ParamsToTest(parsedUrl) ==
  LET discoveredParams == NonBlankTrimmed(ParamKeys(parsedUrl.query))
      uniqueDiscoveredParams == Dedup(discoveredParams)
  IN IF Trim(lfiParam) # "" THEN <<Trim(lfiParam)>> ELSE uniqueDiscoveredParams

OriginalValues(parsedUrl, paramsToTest) ==
  [name \in {paramsToTest[j] : j \in 1..Len(paramsToTest)} |-> SearchGet(parsedUrl.query, name)]

\* the number of parameters left out of the product
ScanTotal_OneParameter(paramsToTest, payloadList) == Len(payloadList)

\* const total = paramsToTest.length * payloadList.length
ScanTotal(paramsToTest, payloadList) == Len(paramsToTest) * Len(payloadList)

\* detectLfiIndicators(bodyText) for the texts a scan can read, computed once
ResponseTexts == Bodies \cup {""}
IndicatorsOf == [b \in ResponseTexts |-> detectLfiIndicators(b)]

\* vulnerable set from the indicators alone
ProbeRecord_IndicatorsOnly(s, status, bodyText) ==
  LET paramName == s.paramsToTest[s.p]
      test == buildLfiTestUrls(s.parsedUrl, paramName, s.payloadList)[s.i]
      indicators == IndicatorsOf[bodyText]
      verdict == analyzeLfiHeuristics(indicators, s.baselineStatus, s.baselineLength,
                                      status, StrLen(bodyText))
  IN [parameter |-> paramName,
      originalValue |-> s.originalValues[paramName],
      testedUrl |-> test.url,
      payload |-> test.payload,
      status |-> status,
      contentLength |-> StrLen(bodyText),
      indicators |-> indicators,
      vulnerable |-> Len(indicators) > 0,
      detection |-> verdict.detection,
      confidence |-> verdict.confidence,
      sample |-> StrSliceTo(bodyText, SampleLen)]

\* the LfiSingleResult of the probe (s.p, s.i), answered with status and bodyText
ProbeRecord(s, status, bodyText) ==
  LET paramName == s.paramsToTest[s.p]
      test == buildLfiTestUrls(s.parsedUrl, paramName, s.payloadList)[s.i]
      indicators == IndicatorsOf[bodyText]
      verdict == analyzeLfiHeuristics(indicators, s.baselineStatus, s.baselineLength,
                                      status, StrLen(bodyText))
  IN [parameter |-> paramName,
      originalValue |-> s.originalValues[paramName],
      testedUrl |-> test.url,
      payload |-> test.payload,
      status |-> status,
      contentLength |-> StrLen(bodyText),
      indicators |-> indicators,
      vulnerable |-> verdict.detection # "NOT_VULNERABLE",
      detection |-> verdict.detection,
      confidence |-> verdict.confidence,
      sample |-> StrSliceTo(bodyText, SampleLen)]

\* the response of a probe becomes the baseline of the next
Recorded_RollingBaseline(s, status, bodyText) ==
  LET r == ProbeRecord(s, status, bodyText)
  IN [s EXCEPT !.results = Append(@, r),
               !.paramVulnerableCount = IF r.vulnerable THEN @ + 1 ELSE @,
               !.baselineStatus = Some(status),
               !.baselineLength = Some(StrLen(bodyText))]

\* the result is put at the front of the list
Recorded_Prepends(s, status, bodyText) ==
  LET r == ProbeRecord(s, status, bodyText)
  IN [s EXCEPT !.results = <<r>> \o @,
               !.paramVulnerableCount = IF r.vulnerable THEN @ + 1 ELSE @]

\* the try block of a probe after the response: classify, count, push
Recorded(s, status, bodyText) ==
  LET r == ProbeRecord(s, status, bodyText)
  IN [s EXCEPT !.results = Append(@, r),
               !.paramVulnerableCount = IF r.vulnerable THEN @ + 1 ELSE @]

\* the failed pair is tried again
Skipped_Retries(s) == [s EXCEPT !.i = @ - 1]

\* the failed pair is pushed as a result that is not vulnerable
Skipped_PushesPlaceholder(s) ==
  [s EXCEPT !.results =
     Append(@, [parameter |-> s.paramsToTest[s.p],
                originalValue |-> s.originalValues[s.paramsToTest[s.p]],
                testedUrl |-> buildLfiTestUrls(s.parsedUrl, s.paramsToTest[s.p], s.payloadList)[s.i].url,
                payload |-> s.payloadList[s.i],
                status |-> 0,
                contentLength |-> 0,
                indicators |-> <<>>,
                vulnerable |-> FALSE,
                detection |-> "NOT_VULNERABLE",
                confidence |-> "Low",
                sample |-> ""])]

\* the catch block of a probe: console.warn, nothing else
Skipped(s) == s

\* a failed baseline is taken as status 0 and length 0
BaselineUnavailable_Zeroes(s) ==
  [s EXCEPT !.baselineStatus = Some(0), !.baselineLength = Some(0)]

\* the catch block of the baseline: console.warn, nothing else
BaselineUnavailable(s) == s

ParamSummary(s) ==
  [name |-> s.paramsToTest[s.p],
   originalValue |-> s.originalValues[s.paramsToTest[s.p]],
   totalTests |-> Len(buildLfiTestUrls(s.parsedUrl, s.paramsToTest[s.p], s.payloadList)),
   vulnerableCount |-> s.paramVulnerableCount]

\* only the confirmed results are counted
VulnerableCount_ConfirmedOnly(results) ==
  Cardinality({j \in 1..Len(results) : results[j].detection = "CONFIRMED_LFI"})

\* results.filter(r => r.vulnerable).length
VulnerableCount(results) ==
  Cardinality({j \in 1..Len(results) : results[j].vulnerable})

ScanSummary(s) ==
  [baseUrl |-> s.targetUrl,
   parametersTested |-> s.perParameterSummary,
   totalTests |-> s.total,
   vulnerableCount |-> VulnerableCount(s.results),
   results |-> s.results]

\* From the end of probe s.i of parameter s.p: the loop ends that stand
\* between here and the next probe, each pushing its parameter's summary.
RECURSIVE Drain(_)
Drain(s) ==
  IF s.p > Len(s.paramsToTest) \/ s.i < Len(s.payloadList) THEN s
  ELSE Drain([s EXCEPT !.perParameterSummary = Append(@, ParamSummary(s)),
                       !.p = @ + 1, !.i = 0, !.paramVulnerableCount = 0])

\* the counter shows the results recorded so far
ProgressOfNext_CountsResults(s) == [current |-> Len(s.results), total |-> s.total]

\* currentIndex += 1; setCurrentProgress({ current: currentIndex, total })
ProgressOfNext(s) == [current |-> s.currentIndex + 1, total |-> s.total]

\* The handler runs on from s0 to its next await, the fetch of the next
\* probe, or to its end: the summary, the progress reset and the finally.
Continue(s0, n0) ==
  LET s == Drain(s0)
  IN IF s.p > Len(s.paramsToTest)
     THEN /\ lfiResults' = Some(ScanSummary(s))
          /\ currentProgress' = NoProgress
          /\ lfiLoading' = FALSE
          /\ pc' = "idle"
          /\ timer' = FALSE
          /\ scan' = s
          /\ net' = n0
     ELSE /\ scan' = [s EXCEPT !.i = @ + 1, !.currentIndex = @ + 1]
          /\ currentProgress' = ProgressOfNext(s)
          /\ timer' = TRUE
          /\ pc' = "probeFetch"
          /\ net' = [n0 EXCEPT !.probes = @ + 1, !.fetched = Append(@, <<s.p, s.i + 1>>)]
          /\ UNCHANGED <<lfiResults, lfiLoading>>

\* the button is left enabled while the wordlist loads
ScanButtonEnabled_WhileLoadingWordlist == ~lfiLoading

\* the "Scan LFI" button: disabled={lfiLoading || wordlistLoading}
ScanButtonEnabled == ~lfiLoading /\ ~wordlistLoading

\* the stored results are cleared before the checks
ReturnWithError_ClearsResults(message) ==
  /\ error' = message
  /\ lfiResults' = Null
  /\ UNCHANGED <<lfiLoading, currentProgress, runVars>>

\* the returns before the scan state is touched: setError(message); return
ReturnWithError(message) ==
  /\ error' = message
  /\ UNCHANGED <<lfiLoading, lfiResults, currentProgress, runVars>>

\* the click on "Scan LFI"
HandleRunLfi ==
  /\ pc = "idle"
  /\ ScanButtonEnabled
  /\ UNCHANGED <<inputVars, wordlistVars, call>>
  /\ IF TargetUrl.blank
     THEN ReturnWithError(ErrNoUrl)
     ELSE IF TargetUrl.query = Null
     THEN ReturnWithError(ErrInvalidUrl)
     ELSE IF Len(wordlist) = 0
     THEN ReturnWithError(ErrWordlist)
     ELSE LET parsedUrl == [base |-> TargetUrl.base, query |-> TargetUrl.query[1]]
              paramsToTest == ParamsToTest(parsedUrl)
              payloadList == SliceTo(wordlist, payloadCap)
          IN IF Len(paramsToTest) = 0
             THEN /\ error' = ErrNoParameters
                  /\ lfiLoading' = FALSE
                  /\ lfiResults' = Null
                  /\ currentProgress' = NoProgress
                  /\ UNCHANGED runVars
             ELSE /\ Len(paramsToTest) * Len(payloadList) <= MaxTests
                  /\ error' = ""
                  /\ lfiLoading' = TRUE
                  /\ lfiResults' = Null
                  /\ scan' = [NoScan EXCEPT
                                !.targetUrl = TargetUrl.href,
                                !.parsedUrl = parsedUrl,
                                !.paramsToTest = paramsToTest,
                                !.originalValues = OriginalValues(parsedUrl, paramsToTest),
                                !.payloadList = payloadList,
                                !.total = ScanTotal(paramsToTest, payloadList)]
                  /\ timer' = TRUE
                  /\ pc' = "baselineFetch"
                  /\ res' = NoRes
                  /\ net' = [NoNet EXCEPT !.baseline = 1, !.baselineUrl = TargetUrl.href]
                  /\ UNCHANGED currentProgress

\* the baseline fetch settles with a response: status line and headers
BaselineResponse(status, body) ==
  /\ pc = "baselineFetch"
  /\ UNCHANGED <<inputVars, wordlistVars, error, call>>
  /\ res' = [of |-> "baseline", kind |-> "response", status |-> status, body |-> body,
             bodyRead |-> IF IsOk(status) THEN "pending" ELSE "skipped"]
  /\ IF IsOk(status)
     THEN /\ pc' = "baselineBody"
          /\ timer' = FALSE
          /\ net' = [net EXCEPT !.baselineSettled = "response"]
          /\ UNCHANGED <<scan, lfiLoading, lfiResults, currentProgress>>
     ELSE Continue([scan EXCEPT !.baselineStatus = Some(status),
                                !.baselineLength = Some(0)],
                   [net EXCEPT !.baselineSettled = "response"])

\* res.text() of the baseline resolves
BaselineBodyRead ==
  /\ pc = "baselineBody"
  /\ UNCHANGED <<inputVars, wordlistVars, error, call>>
  /\ res' = [res EXCEPT !.bodyRead = "done"]
  /\ Continue([scan EXCEPT !.baselineStatus = Some(res.status),
                           !.baselineLength = Some(StrLen(res.body))], net)

\* res.text() of the baseline rejects: safeReadText returns ''
BaselineBodyFails ==
  /\ pc = "baselineBody"
  /\ UNCHANGED <<inputVars, wordlistVars, error, call>>
  /\ res' = [res EXCEPT !.bodyRead = "failed"]
  /\ Continue([scan EXCEPT !.baselineStatus = Some(res.status),
                           !.baselineLength = Some(0)], net)

\* the baseline fetch rejects (network error): the baseline stays null
BaselineFetchFails ==
  /\ pc = "baselineFetch"
  /\ UNCHANGED <<inputVars, wordlistVars, error, call>>
  /\ res' = [NoRes EXCEPT !.of = "baseline", !.kind = "TypeError"]
  /\ Continue(BaselineUnavailable(scan), [net EXCEPT !.baselineSettled = "rejected"])

\* the abort timer fires while the baseline fetch is pending: fetch rejects
BaselineTimeout ==
  /\ pc = "baselineFetch"
  /\ timer
  /\ UNCHANGED <<inputVars, wordlistVars, error, call>>
  /\ res' = [NoRes EXCEPT !.of = "baseline", !.kind = "AbortError"]
  /\ Continue(BaselineUnavailable(scan), [net EXCEPT !.baselineSettled = "rejected"])

\* the body of a probe is read whatever the status
ProbeResponse_ReadsErrorBody(status, body) ==
  /\ pc = "probeFetch"
  /\ UNCHANGED <<inputVars, wordlistVars, error, call>>
  /\ res' = [of |-> "probe", kind |-> "response", status |-> status, body |-> body,
             bodyRead |-> IF IsOk(status) THEN "pending" ELSE "skipped"]
  /\ IF IsOk(status)
     THEN /\ pc' = "probeBody"
          /\ timer' = FALSE
          /\ net' = [net EXCEPT !.resolved = @ + 1]
          /\ UNCHANGED <<scan, lfiLoading, lfiResults, currentProgress>>
     ELSE Continue(Recorded(scan, status, body), [net EXCEPT !.resolved = @ + 1])

\* a probe fetch settles with a response: status line and headers
ProbeResponse(status, body) ==
  /\ pc = "probeFetch"
  /\ UNCHANGED <<inputVars, wordlistVars, error, call>>
  /\ res' = [of |-> "probe", kind |-> "response", status |-> status, body |-> body,
             bodyRead |-> IF IsOk(status) THEN "pending" ELSE "skipped"]
  /\ IF IsOk(status)
     THEN /\ pc' = "probeBody"
          /\ timer' = FALSE
          /\ net' = [net EXCEPT !.resolved = @ + 1]
          /\ UNCHANGED <<scan, lfiLoading, lfiResults, currentProgress>>
     ELSE Continue(Recorded(scan, status, ""), [net EXCEPT !.resolved = @ + 1])

\* res.text() of a probe resolves
ProbeBodyRead ==
  /\ pc = "probeBody"
  /\ UNCHANGED <<inputVars, wordlistVars, error, call>>
  /\ res' = [res EXCEPT !.bodyRead = "done"]
  /\ Continue(Recorded(scan, res.status, res.body), net)

\* res.text() of a probe rejects: safeReadText returns ''
ProbeBodyFails ==
  /\ pc = "probeBody"
  /\ UNCHANGED <<inputVars, wordlistVars, error, call>>
  /\ res' = [res EXCEPT !.bodyRead = "failed"]
  /\ Continue(Recorded(scan, res.status, ""), net)

\* a probe fetch rejects (network error)
ProbeFetchFails ==
  /\ pc = "probeFetch"
  /\ UNCHANGED <<inputVars, wordlistVars, error, call>>
  /\ res' = [NoRes EXCEPT !.of = "probe", !.kind = "TypeError"]
  /\ Continue(Skipped(scan), [net EXCEPT !.rejected = @ + 1,
                                     !.failed = @ \cup {<<scan.p, scan.i>>}])

\* the abort timer fires while a probe fetch is pending: fetch rejects
ProbeTimeout ==
  /\ pc = "probeFetch"
  /\ timer
  /\ UNCHANGED <<inputVars, wordlistVars, error, call>>
  /\ res' = [NoRes EXCEPT !.of = "probe", !.kind = "AbortError"]
  /\ Continue(Skipped(scan), [net EXCEPT !.rejected = @ + 1,
                                     !.failed = @ \cup {<<scan.p, scan.i>>}])

Next ==
  \/ LoadWordlistFetched
  \/ LoadWordlistFailed
  \/ \E u \in LfiUrlEdits : SetLfiUrl(u)
  \/ HandleRunLfi
  \/ \E status \in Statuses, body \in Bodies : BaselineResponse(status, body)
  \/ BaselineBodyRead
  \/ BaselineBodyFails
  \/ BaselineFetchFails
  \/ BaselineTimeout
  \/ \E status \in Statuses, body \in Bodies : ProbeResponse(status, body)
  \/ ProbeBodyRead
  \/ ProbeBodyFails
  \/ ProbeFetchFails
  \/ ProbeTimeout

Spec == Init /\ [][Next]_vars

----------------------------------------------------------------------------
(* analyzeLfiHeuristics on its own: one call, its arguments drawn from     *)
(* every combination of an indicator list, a nullable baseline status, a   *)
(* nullable baseline length, a status and a length.                        *)

Lengths == 0..MaxLen \cup {100, 1000}
IndicatorLists == {<<>>, <<"etc/passwd">>, <<"etc/passwd", "PHP source">>}
Nullable(S) == {Null} \cup {Some(v) : v \in S}

ClassifyArgs ==
  [indicators : IndicatorLists,
   baselineStatus : Nullable(Statuses),
   baselineLength : Nullable(Lengths),
   status : Statuses,
   length : Lengths]

InitClassify ==
  /\ PopupInit(U_blank, U_blank, "file", DefaultPayloadCap)
  /\ call \in [fn : {"analyzeLfiHeuristics"}, args : ClassifyArgs, ret : {Null}]

Classify ==
  /\ call.fn = "analyzeLfiHeuristics"
  /\ call.ret = Null
  /\ call' = [call EXCEPT !.ret =
                Some(analyzeLfiHeuristics(call.args.indicators, call.args.baselineStatus,
                                          call.args.baselineLength, call.args.status,
                                          call.args.length))]
  /\ UNCHANGED <<inputVars, wordlistVars, uiVars, runVars>>

NextClassify == Classify

SpecClassify == InitClassify /\ [][NextClassify]_vars

----------------------------------------------------------------------------
(* buildLfiPayloadList on its own: one call, its argument drawn from the    *)
(* lists of category ids, in any order and with repetitions; the empty     *)
(* list stands for the omitted argument too.                               *)

CategoryIds == {LFI_PAYLOAD_CATEGORIES[j].id : j \in 1..Len(LFI_PAYLOAD_CATEGORIES)}
CategoryIdLists == UNION {[1..n -> CategoryIds] : n \in 0..MaxIds}

InitPayloads ==
  /\ PopupInit(U_blank, U_blank, "file", DefaultPayloadCap)
  /\ call \in [fn : {"buildLfiPayloadList"}, args : CategoryIdLists, ret : {Null}]

BuildPayloads ==
  /\ call.fn = "buildLfiPayloadList"
  /\ call.ret = Null
  /\ call' = [call EXCEPT !.ret = Some(buildLfiPayloadList(call.args))]
  /\ UNCHANGED <<inputVars, wordlistVars, uiVars, runVars>>

NextPayloads == BuildPayloads

SpecPayloads == InitPayloads /\ [][NextPayloads]_vars

----------------------------------------------------------------------------
(* The outer catch of handleRunLfi.  The rejections of the fetches are     *)
(* caught inside the loop and safeReadText catches its own, so no          *)
(* statement of the try block throws in Spec; here the runtime may throw   *)
(* where the handler resumes from an await.                                *)

ErrScanFailed == "LFI scan failed"

\* the catch block without the finally
ScanThrows_NoFinally ==
  /\ pc \in {"baselineFetch", "baselineBody", "probeFetch", "probeBody"}
  /\ error' = ErrScanFailed
  /\ currentProgress' = NoProgress
  /\ pc' = "idle"
  /\ timer' = FALSE
  /\ UNCHANGED <<inputVars, wordlistVars, lfiLoading, lfiResults, scan, res, net, call>>

\* catch: setError, the progress reset; finally: setLfiLoading(false)
ScanThrows ==
  /\ pc \in {"baselineFetch", "baselineBody", "probeFetch", "probeBody"}
  /\ error' = ErrScanFailed
  /\ currentProgress' = NoProgress
  /\ lfiLoading' = FALSE
  /\ pc' = "idle"
  /\ timer' = FALSE
  /\ UNCHANGED <<inputVars, wordlistVars, lfiResults, scan, res, net, call>>

NextThrows ==
  \/ Next
  \/ ScanThrows

SpecThrows == Init /\ [][NextThrows]_vars

----------------------------------------------------------------------------
(* scrapeWebsite, one action per awaited fetch or body.  A page is the     *)
(* matches of its HTML, its script tags with a src (the src, the matches   *)
(* of the script's text, whether that text holds 'WebSocket', 'eval(' or   *)
(* 'Function(' or is longer than 100000) and its script elements (the      *)
(* matches of the content, whether the content is blank, whether it holds  *)
(* 'WebSocket').                                                           *)

MaxMatches == 2
maxScripts == 10

PageOrigin == "https://example.com"
PageDomain == "example.com"

M_quoted == Match(1, "'/api/users'", Null, 3)
M_spaced == Match(1, "'/api/users '", Null, 4)
M_query == Match(9, "fetch('/api/users?id=1'", Some("/api/users?id=1"), 5)
M_page == Match(9, "fetch('/index.php'", Some("/index.php"), 6)
M_script == Match(9, "fetch('/app.js'", Some("/app.js"), 7)
M_scriptq == Match(9, "fetch('/app.js?v=2'", Some("/app.js?v=2"), 8)
M_image == Match(7, "https://example.com/LOGO.PNG", Null, 9)
M_root == Match(11, ".get('/'", Some("/"), 10)
M_rootq == Match(11, ".get('/?page=2'", Some("/?page=2"), 11)
M_fragment == Match(11, ".get('#top'", Some("#top"), 12)
M_js == Match(11, ".get('javascript:void(0)'", Some("javascript:void(0)"), 13)
M_mailto == Match(11, ".get('mailto:a@b.c'", Some("mailto:a@b.c"), 14)
M_tel == Match(11, ".get('tel:123'", Some("tel:123"), 15)
M_xhr == Match(16, "open('POST', '/api/save'", Some("POST"), 16)
Matches == {M_quoted, M_spaced, M_query, M_page, M_script, M_scriptq, M_image, M_root, M_rootq, M_fragment, M_js, M_mailto, M_tel, M_xhr}

\* pattern.exec walks the patterns in their order and a text from left to right
MatchBefore(a, b) == a.pattern < b.pattern \/ (a.pattern = b.pattern /\ a.line < b.line)

MatchLists ==
  {s \in UNION {[1..n -> Matches] : n \in 0..MaxMatches} :
     \A j \in 1..(Len(s) - 1) : MatchBefore(s[j], s[j + 1])}

Script(src, content, flagged) == [src |-> src, content |-> content, flagged |-> flagged]
S_app == Script("/js/app.js", <<M_quoted, M_scriptq>>, FALSE)
S_cdn == Script("https://cdn.example.com/lib.js", <<M_page>>, FALSE)
S_ws == Script("/js/ws.js", <<M_xhr>>, TRUE)
ScriptLists == {<<>>, <<S_app>>, <<S_cdn, S_app>>, <<S_ws, S_app>>}

Inline(content, blank, websocket) == [content |-> content, blank |-> blank, websocket |-> websocket]
I_src == Inline(<<>>, TRUE, FALSE)
I_app == Inline(<<M_query, M_rootq>>, FALSE, FALSE)
I_ws == Inline(<<M_page>>, FALSE, TRUE)
InlineLists == {<<>>, <<I_src, I_app>>, <<I_ws, I_app>>}

Pages == [html : MatchLists, scripts : ScriptLists, inline : InlineLists]

\* scriptUrl.includes('cdn') || ... 'min.js' ... 'bundle' ... 'vendor'
SkippedBySrc(src) ==
  \/ Includes(Chars(src), <<"c", "d", "n">>)
  \/ Includes(Chars(src), <<"m", "i", "n", ".", "j", "s">>)
  \/ Includes(Chars(src), <<"b", "u", "n", "d", "l", "e">>)
  \/ Includes(Chars(src), <<"v", "e", "n", "d", "o", "r">>)

\* the absolute URL of a script, as the pieces the template joins
ScriptUrl(src) ==
  IF StartsWith(src, "/") THEN <<PageOrigin, src>>
  ELSE IF SubSeq(Chars(src), 1, 4) # <<"h", "t", "t", "p">> THEN <<PageOrigin, "/", src>>
  ELSE <<src>>

\* the next script of scriptsToProcess after the k-th that is fetched, 0 if none
NextScript(page, k) ==
  LET toProcess == SubSeq(page.scripts, 1, Min(maxScripts, Len(page.scripts)))
      fetched == {j \in (k + 1)..Len(toProcess) : ~SkippedBySrc(toProcess[j].src)}
  IN IF fetched = {} THEN 0 ELSE CHOOSE j \in fetched : \A i \in fetched : j <= i

RECURSIVE InlineEndpoints(_)
InlineEndpoints(inline) ==
  IF inline = <<>> THEN <<>>
  ELSE (IF ~Head(inline).blank /\ ~Head(inline).websocket
        THEN extractEndpointsFromText(Head(inline).content, <<"Inline Script">>)
        ELSE <<>>) \o InlineEndpoints(Tail(inline))

Thrown(message) == [error |-> message]

\* the rest of scrapeWebsite once the k-th script is dealt with: the next
\* script's fetch, or the inline scripts, the filter and the return
ScrapeOn(c, endpoints, k) ==
  LET j == NextScript(c.args, k)
      all == endpoints \o InlineEndpoints(c.args.inline)
      unique == uniqueEndpoints(all)
  IN IF j # 0
     THEN [c EXCEPT !.at = "scriptFetch", !.k = j, !.endpoints = endpoints]
     ELSE [c EXCEPT !.at = "done", !.k = 0, !.endpoints = all,
                    !.ret = Some([endpoints |-> unique, totalCount |-> Len(unique),
                                  domain |-> PageDomain])]

InitScrape ==
  /\ PopupInit(U_blank, U_blank, "file", DefaultPayloadCap)
  /\ call \in [fn : {"scrapeWebsite"}, args : Pages, at : {"pageFetch"}, k : {0},
               endpoints : {<<>>}, ret : {Null}]

Scraping(at) == call.fn = "scrapeWebsite" /\ call.at = at

PageFetchResolves(ok) ==
  /\ Scraping("pageFetch")
  /\ call' = IF ok THEN [call EXCEPT !.at = "pageBody"]
             ELSE [call EXCEPT !.at = "done", !.ret = Some(Thrown("HTTP"))]
  /\ UNCHANGED <<inputVars, wordlistVars, uiVars, runVars>>

PageFetchRejects ==
  /\ Scraping("pageFetch")
  /\ call' = [call EXCEPT !.at = "done", !.ret = Some(Thrown("Failed to fetch"))]
  /\ UNCHANGED <<inputVars, wordlistVars, uiVars, runVars>>

PageBodyResolves ==
  /\ Scraping("pageBody")
  /\ call' = ScrapeOn(call, extractEndpointsFromText(call.args.html, <<"HTML">>), 0)
  /\ UNCHANGED <<inputVars, wordlistVars, uiVars, runVars>>

PageBodyRejects ==
  /\ Scraping("pageBody")
  /\ call' = [call EXCEPT !.at = "done", !.ret = Some(Thrown("Failed to read"))]
  /\ UNCHANGED <<inputVars, wordlistVars, uiVars, runVars>>

ScriptFetchResolves(ok) ==
  /\ Scraping("scriptFetch")
  /\ call' = IF ok THEN [call EXCEPT !.at = "scriptBody"]
             ELSE ScrapeOn(call, call.endpoints, call.k)
  /\ UNCHANGED <<inputVars, wordlistVars, uiVars, runVars>>

ScriptFetchRejects ==
  /\ Scraping("scriptFetch")
  /\ call' = ScrapeOn(call, call.endpoints, call.k)
  /\ UNCHANGED <<inputVars, wordlistVars, uiVars, runVars>>

ScriptBodyResolves ==
  /\ Scraping("scriptBody")
  /\ LET script == call.args.scripts[call.k]
     IN call' = IF script.flagged
                THEN ScrapeOn(call, call.endpoints, call.k)
                ELSE ScrapeOn(call,
                              call.endpoints \o
                                extractEndpointsFromText(script.content,
                                                         <<"JS: ">> \o ScriptUrl(script.src)),
                              call.k)
  /\ UNCHANGED <<inputVars, wordlistVars, uiVars, runVars>>

ScriptBodyRejects ==
  /\ Scraping("scriptBody")
  /\ call' = ScrapeOn(call, call.endpoints, call.k)
  /\ UNCHANGED <<inputVars, wordlistVars, uiVars, runVars>>

NextScrape ==
  \/ \E ok \in BOOLEAN : PageFetchResolves(ok)
  \/ PageFetchRejects
  \/ PageBodyResolves
  \/ PageBodyRejects
  \/ \E ok \in BOOLEAN : ScriptFetchResolves(ok)
  \/ ScriptFetchRejects
  \/ ScriptBodyResolves
  \/ ScriptBodyRejects

SpecScrape == InitScrape /\ [][NextScrape]_vars

----------------------------------------------------------------------------
(* sendToBackgroundWithRetry, one action per awaited send or timer.  The   *)
(* recursive call is the same code with one retry less: the call keeps the *)
(* retries that remain and the outcome of every send so far.               *)

MaxRetries == 2
DefaultRetries == 1

Failure(message) == [message |-> message]
Failures == {Failure("Extension context invalidated."), Failure("CONTEXT INVALIDATED"),
             Failure("context invalidated"), Failure("Receiving end does not exist."),
             Failure("")}
Responses == {[error |-> Null], [error |-> Some("URL is required")]}

\* String(e?.message || e), e an Error
MessageOf(e) == IF e.message # "" THEN e.message ELSE "Error"

\* /context invalidated/i.test(msg)
ContextInvalidated(msg) == RegexTest(<<Lit(<<"c", "o", "n", "t", "e", "x", "t", " ", "i", "n", "v", "a", "l", "i", "d", "a", "t", "e", "d">>)>>, Chars(msg))

Rejected(e) == [kind |-> "rejected", v |-> e]
Resolved(response) == [kind |-> "resolved", v |-> response]

InitSend ==
  /\ PopupInit(U_blank, U_blank, "file", DefaultPayloadCap)
  /\ call \in [fn : {"sendToBackgroundWithRetry"}, args : [retries : 0..MaxRetries],
               retries : 0..MaxRetries, at : {"send"}, outcomes : {<<>>}, ret : {Null}]
  /\ call.retries = call.args.retries

Sending(at) == call.fn = "sendToBackgroundWithRetry" /\ call.at = at

\* sendToBackground resolves: the response is returned
SendResolves(response) ==
  /\ Sending("send")
  /\ call' = [call EXCEPT !.at = "done", !.outcomes = Append(@, Resolved(response)),
                          !.ret = Some(Resolved(response))]
  /\ UNCHANGED <<inputVars, wordlistVars, uiVars, runVars>>

\* every failure is sent again while retries remain
SendRejects_RetriesAnyFailure(e) ==
  /\ Sending("send")
  /\ call' = IF call.retries > 0
             THEN [call EXCEPT !.at = "wait", !.outcomes = Append(@, Rejected(e))]
             ELSE [call EXCEPT !.at = "done", !.outcomes = Append(@, Rejected(e)),
                               !.ret = Some(Rejected(e))]
  /\ UNCHANGED <<inputVars, wordlistVars, uiVars, runVars>>

\* sendToBackground rejects: the catch block, up to its await or its throw
SendRejects(e) ==
  /\ Sending("send")
  /\ call' = IF call.retries > 0 /\ ContextInvalidated(MessageOf(e))
             THEN [call EXCEPT !.at = "wait", !.outcomes = Append(@, Rejected(e))]
             ELSE [call EXCEPT !.at = "done", !.outcomes = Append(@, Rejected(e)),
                               !.ret = Some(Rejected(e))]
  /\ UNCHANGED <<inputVars, wordlistVars, uiVars, runVars>>

\* the 100 ms timer fires: the recursive call sends again
RetryTimer ==
  /\ Sending("wait")
  /\ call' = [call EXCEPT !.at = "send", !.retries = @ - 1]
  /\ UNCHANGED <<inputVars, wordlistVars, uiVars, runVars>>

NextSend ==
  \/ \E response \in Responses : SendResolves(response)
  \/ \E e \in Failures : SendRejects(e)
  \/ RetryTimer

SpecSend == InitSend /\ [][NextSend]_vars

----------------------------------------------------------------------------
(* The classifier's rules.                                                 *)

Returned == call.fn = "analyzeLfiHeuristics" /\ call.ret # Null

\* the length delta is strictly above 30% of a known, positive baseline length
DeltaAbove30(a) ==
  /\ a.baselineLength # Null
  /\ a.baselineLength[1] > 0
  /\ 10 * Abs(a.length - a.baselineLength[1]) > 3 * a.baselineLength[1]

StatusDiffers(a) == a.baselineStatus # Null /\ a.baselineStatus[1] # a.status

\* C1: whatever the baseline status, the baseline length, the status and the
\* length are, a non-empty indicator list gives (CONFIRMED_LFI, High).
C1_IndicatorsTakePrecedence ==
  (Returned /\ Len(call.args.indicators) > 0)
    => call.ret[1] = Verdict("CONFIRMED_LFI", "High")

\* indicators = ["etc/passwd"], baselineLength = 100, length = 1000 and a
\* status that differs from the baseline's: rules 2 and 3 would both fire
C1_Witness ==
  /\ Returned
  /\ call.args.indicators = <<"etc/passwd">>
  /\ call.args.baselineLength = Some(100)
  /\ call.args.length = 1000
  /\ StatusDiffers(call.args)
  /\ call.ret[1] = Verdict("CONFIRMED_LFI", "High")

\* C2: with no indicator and a known baseline length > 0, a length delta
\* strictly above 30% gives (POSSIBLE_LFI, Medium), also when the status
\* differs from the baseline's; a delta of exactly 30% does not give POSSIBLE_LFI.
C2_LengthDeltaRule ==
  (/\ Returned
   /\ call.args.indicators = <<>>
   /\ call.args.baselineLength # Null
   /\ call.args.baselineLength[1] > 0)
    => /\ DeltaAbove30(call.args) => call.ret[1] = Verdict("POSSIBLE_LFI", "Medium")
       /\ 10 * Abs(call.args.length - call.args.baselineLength[1])
             = 3 * call.args.baselineLength[1]
            => call.ret[1].detection # "POSSIBLE_LFI"

\* baseline 200 with 10 characters, probe 404 with 0 characters: rule 2 wins over rule 3
C2_Witness ==
  /\ Returned
  /\ call.args.indicators = <<>>
  /\ call.args.baselineLength = Some(10)
  /\ call.args.length = 0
  /\ call.args.baselineStatus = Some(200)
  /\ call.args.status = 404
  /\ call.ret[1] = Verdict("POSSIBLE_LFI", "Medium")

\* C3: with no indicator and rule 2 not firing (baseline length unknown,
\* zero, or a delta of at most 30%), the result is (SUSPICIOUS, Low) exactly
\* when the baseline status is known and differs from the probe's status.
C3_StatusRule ==
  (Returned /\ call.args.indicators = <<>> /\ ~DeltaAbove30(call.args))
    => (call.ret[1] = Verdict("SUSPICIOUS", "Low") <=> StatusDiffers(call.args))

\* a delta of exactly 30% and a changed status
C3_Witness ==
  /\ Returned
  /\ call.args.indicators = <<>>
  /\ call.args.baselineLength = Some(10)
  /\ call.args.length = 13
  /\ call.args.baselineStatus = Some(404)
  /\ call.args.status = 200
  /\ call.ret[1] = Verdict("SUSPICIOUS", "Low")

\* C4: with both baseline fields null, the result is (CONFIRMED_LFI, High)
\* when the indicator list is non-empty and (NOT_VULNERABLE, Low) otherwise,
\* for every status and length.
C4_AbsentBaseline ==
  (Returned /\ call.args.baselineStatus = Null /\ call.args.baselineLength = Null)
    => call.ret[1] = IF Len(call.args.indicators) > 0
                     THEN Verdict("CONFIRMED_LFI", "High")
                     ELSE Verdict("NOT_VULNERABLE", "Low")

C4_Witness ==
  /\ Returned
  /\ call.args.baselineStatus = Null
  /\ call.args.baselineLength = Null
  /\ call.args.indicators = <<>>
  /\ call.args.status = 404
  /\ call.args.length = 1000
  /\ call.ret[1] = Verdict("NOT_VULNERABLE", "Low")

----------------------------------------------------------------------------
(* The scan: handleRunLfi from the click to the summary.                   *)

Completed == pc = "idle" /\ lfiResults # Null
Last(s) == s[Len(s)]

\* the latest probe response has been handled in full: its body was read to
\* the end, or was not read because the status is not a 2xx
ProbeHandled ==
  res.of = "probe" /\ res.kind = "response" /\ res.bodyRead \in {"done", "skipped"}

\* C5: every probe response whose body contains a known file fingerprint is
\* recorded as (CONFIRMED_LFI, High), whatever its status code and its length
\* relative to the baseline.
C5_FingerprintAlwaysConfirmed ==
  (ProbeHandled /\ IndicatorsOf[res.body] # <<>>)
    => /\ Last(scan.results).detection = "CONFIRMED_LFI"
       /\ Last(scan.results).confidence = "High"

\* C6: every network call of a scan is bounded by its own timeout at every
\* stage: whenever the handler awaits the network (a fetch or the reading of
\* a body), the timeout of that request can still fire and fail it.
C6_EveryWaitHasATimeout ==
  pc \in {"baselineFetch", "baselineBody", "probeFetch", "probeBody"}
    => ENABLED (BaselineTimeout \/ ProbeTimeout)

\* C7: a probe fetch that rejects records nothing and stops nothing: the
\* results are as many as the probe fetches that resolved, no result belongs
\* to a pair whose fetch rejected, and a completed scan has attempted every
\* pair of the matrix and holds a summary with exactly those results.
C7_FailedProbesAreSkipped ==
  /\ Len(scan.results) = net.resolved - (IF pc = "probeBody" THEN 1 ELSE 0)
  /\ \A f \in net.failed : \A j \in 1..Len(scan.results) :
        ~(/\ scan.results[j].parameter = scan.paramsToTest[f[1]]
          /\ scan.results[j].payload = scan.payloadList[f[2]])
  /\ Completed =>
        /\ net.probes = Len(scan.paramsToTest) * Len(scan.payloadList)
        /\ net.resolved + net.rejected = net.probes
        /\ Len(lfiResults[1].results) = net.resolved

\* the first pair fails and both later pairs are answered and recorded
C7_Witness ==
  /\ Completed
  /\ net.failed = {<<1, 1>>}
  /\ Len(scan.payloadList) = 3
  /\ Len(lfiResults[1].results) = 2
  /\ lfiResults[1].results[1].payload = scan.payloadList[2]
  /\ lfiResults[1].results[2].payload = scan.payloadList[3]

\* C8: the summary's totalTests is |parameters| x |payloadList| however many
\* fetches failed, and is the sum of the per-parameter totalTests, each of
\* which is |payloadList|.
C8_TotalTestsIsTheMatrix ==
  Completed =>
    LET sm == lfiResults[1]
        pt == sm.parametersTested
    IN /\ sm.totalTests = Len(scan.paramsToTest) * Len(scan.payloadList)
       /\ Len(pt) = Len(scan.paramsToTest)
       /\ \A j \in 1..Len(pt) : pt[j].totalTests = Len(scan.payloadList)
       /\ sm.totalTests = SumSeq([j \in 1..Len(pt) |-> pt[j].totalTests])

\* one parameter, 3 payloads, one failed fetch: 2 results and totalTests = 3
C8_Witness ==
  /\ Completed
  /\ Len(scan.paramsToTest) = 1
  /\ Len(scan.payloadList) = 3
  /\ net.rejected = 1
  /\ Len(lfiResults[1].results) = 2
  /\ lfiResults[1].totalTests = 3

\* C9: the summary's vulnerableCount is the number of results whose detection
\* is not NOT_VULNERABLE, and is the sum of the per-parameter vulnerableCount.
C9_VulnerableCountAgrees ==
  Completed =>
    LET sm == lfiResults[1]
        pt == sm.parametersTested
    IN /\ sm.vulnerableCount =
            Cardinality({j \in 1..Len(sm.results) : sm.results[j].detection # "NOT_VULNERABLE"})
       /\ sm.vulnerableCount = SumSeq([j \in 1..Len(pt) |-> pt[j].vulnerableCount])

\* two parameters, each with a vulnerable and a non-vulnerable result, and a
\* result that is vulnerable without being confirmed
C9_Witness ==
  /\ Completed
  /\ Len(lfiResults[1].parametersTested) = 2
  /\ Len(lfiResults[1].results) = 4
  /\ lfiResults[1].vulnerableCount = 2
  /\ lfiResults[1].parametersTested[1].vulnerableCount = 1
  /\ lfiResults[1].parametersTested[2].vulnerableCount = 1
  /\ \E j \in 1..4 : lfiResults[1].results[j].detection = "SUSPICIOUS"

\* C10: every result a scan records has vulnerable = (detection # NOT_VULNERABLE).
C10_VulnerableIffDetected ==
  \A j \in 1..Len(scan.results) :
     scan.results[j].vulnerable = (scan.results[j].detection # "NOT_VULNERABLE")

\* results of both kinds, one of them vulnerable with no indicator
C10_Witness ==
  /\ \E j \in 1..Len(scan.results) : ~scan.results[j].vulnerable
  /\ \E j \in 1..Len(scan.results) :
        /\ scan.results[j].vulnerable
        /\ scan.results[j].indicators = <<>>
        /\ scan.results[j].detection = "POSSIBLE_LFI"

----------------------------------------------------------------------------
(* The order of the sweep.                                                 *)

\* the place of x in a list without duplicates
IndexOf(list, x) == CHOOSE j \in 1..Len(list) : list[j] = x

\* the (parameter index, payload index) pair a result belongs to
PairOfResult(r) == <<IndexOf(scan.paramsToTest, r.parameter), IndexOf(scan.payloadList, r.payload)>>

\* parameter-major, payload-minor
PairBefore(a, b) == a[1] < b[1] \/ (a[1] = b[1] /\ a[2] < b[2])

\* C11: the results of a scan, while it runs and in its summary, are in
\* parameter-major, payload-minor order: of any two results the earlier one
\* belongs to the earlier parameter or, for the same parameter, to the earlier
\* payload, whichever pairs in between were skipped.
C11_ResultsInMatrixOrder ==
  /\ \A j, k \in 1..Len(scan.results) :
        j < k => PairBefore(PairOfResult(scan.results[j]), PairOfResult(scan.results[k]))
  /\ Completed => lfiResults[1].results = scan.results

\* two parameters and two payloads, the pair (1, 2) skipped: the three results
\* are those of (1, 1), (2, 1) and (2, 2), in that order
C11_Witness ==
  /\ Completed
  /\ Len(scan.paramsToTest) = 2
  /\ Len(scan.payloadList) = 2
  /\ net.failed = {<<1, 2>>}
  /\ Len(lfiResults[1].results) = 3
  /\ PairOfResult(lfiResults[1].results[1]) = <<1, 1>>
  /\ PairOfResult(lfiResults[1].results[2]) = <<2, 1>>
  /\ PairOfResult(lfiResults[1].results[3]) = <<2, 2>>

\* the pairs of the matrix of the scan
Matrix == (1..Len(scan.paramsToTest)) \X (1..Len(scan.payloadList))

\* C12: no probe is retried: the test URL of a (parameter, payload) pair is
\* fetched at most once during a scan, whether the fetch resolves or rejects,
\* and a completed scan has fetched every pair of the matrix exactly once,
\* |parameters| x |payloadList| probe fetches in all.
C12_EachPairFetchedOnce ==
  /\ Len(net.fetched) = net.probes
  /\ \A j, k \in 1..Len(net.fetched) : j # k => net.fetched[j] # net.fetched[k]
  /\ \A j \in 1..Len(net.fetched) : net.fetched[j] \in Matrix
  /\ Completed =>
        /\ {net.fetched[j] : j \in 1..Len(net.fetched)} = Matrix
        /\ net.probes = Len(scan.paramsToTest) * Len(scan.payloadList)

\* a completed 2 x 2 scan of which two fetches rejected: four fetches
C12_Witness ==
  /\ Completed
  /\ Len(scan.paramsToTest) = 2
  /\ Len(scan.payloadList) = 2
  /\ Cardinality(net.failed) = 2
  /\ net.fetched = <<<<1, 1>>, <<1, 2>>, <<2, 1>>, <<2, 2>>>>

----------------------------------------------------------------------------
(* The early returns of handleRunLfi.                                      *)

\* the target parses, no parameter name is given and no key of its query is
\* left after trimming
NoParametersCase ==
  /\ ~TargetUrl.blank
  /\ TargetUrl.query # Null
  /\ Trim(lfiParam) = ""
  /\ \A j \in 1..Len(TargetUrl.query[1]) : Trim(TargetUrl.query[1][j].k) = ""

\* C13: a click with no parameter name given and a target URL that has no
\* non-blank query key ends with the no-parameters error, with no summary,
\* and without a fetch: no baseline, no probe, the handler at no await.
C13_NoParametersFailsBeforeAnyFetch ==
  [][(HandleRunLfi /\ NoParametersCase)
       => /\ error' = ErrNoParameters
          /\ lfiResults' = Null
          /\ ~lfiLoading'
          /\ pc' = "idle"
          /\ net' = net
          /\ timer' = timer]_vars

\* the click has ended so on a URL whose only key is blank: nothing fetched
C13_Witness ==
  /\ NoParametersCase
  /\ Len(TargetUrl.query[1]) > 0
  /\ error = ErrNoParameters
  /\ lfiResults = Null
  /\ net = NoNet
  /\ pc = "idle"

\* the target is not blank and new URL(targetUrl) throws
InvalidUrlCase == ~TargetUrl.blank /\ TargetUrl.query = Null

\* C14: a click on a target URL that does not parse as an absolute URL ends
\* with the invalid-URL error and without a fetch, and leaves the stored scan
\* state as it was: the results of the previous scan, the loading flag and
\* the progress.
C14_InvalidUrlLeavesStateAlone ==
  [][(HandleRunLfi /\ InvalidUrlCase)
       => /\ error' = ErrInvalidUrl
          /\ lfiResults' = lfiResults
          /\ lfiLoading' = lfiLoading
          /\ currentProgress' = currentProgress
          /\ pc' = "idle"
          /\ net' = net
          /\ timer' = timer]_vars

\* the summary of a completed scan is still there after the field was retyped
\* to a text that is no URL and the click ended with the error
C14_Witness ==
  /\ InvalidUrlCase
  /\ error = ErrInvalidUrl
  /\ Completed
  /\ Len(lfiResults[1].results) > 0
  /\ net.baseline = 1

----------------------------------------------------------------------------
(* The baseline.                                                           *)

\* C15: a baseline fetch that rejects, by a network error or by its timeout,
\* ends nothing: baselineStatus and baselineLength stay null, the handler goes
\* on to the probes with no error set, and when it ends it has fetched the
\* whole parameter x payload matrix and stored a summary.
C15_BaselineFailureIsNotFatal ==
  net.baselineSettled = "rejected" =>
    /\ scan.baselineStatus = Null
    /\ scan.baselineLength = Null
    /\ pc \in {"probeFetch", "probeBody", "idle"}
    /\ lfiLoading => error = ""
    /\ pc = "idle" =>
          /\ lfiResults # Null
          /\ net.probes = Len(scan.paramsToTest) * Len(scan.payloadList)
          /\ lfiResults[1].totalTests = net.probes
          /\ lfiResults[1].results = scan.results

\* the baseline fetch rejected, all four probes of the 2 x 2 matrix were
\* fetched and answered, and the summary holds their results
C15_Witness ==
  /\ net.baselineSettled = "rejected"
  /\ Completed
  /\ Len(scan.paramsToTest) = 2
  /\ net.probes = 4
  /\ Len(lfiResults[1].results) = 4

\* the verdict of the classifier on a result, against the baseline b
VerdictAgainst(r, bStatus, bLength) ==
  analyzeLfiHeuristics(r.indicators, bStatus, bLength, r.status, r.contentLength)

\* one baseline fetch, of the target URL, settled before any probe, and the
\* verdict of every result taken against the baseline pair
BaselineHeldBySweep ==
  /\ net.baseline <= 1
  /\ (pc # "idle" \/ Completed) =>
        /\ net.baseline = 1
        /\ net.baselineUrl = scan.targetUrl
        /\ \E u \in LfiUrlInputs \cup UrlInputs : net.baselineUrl = u.href
  /\ pc \in {"baselineFetch", "baselineBody"} => net.probes = 0
  /\ net.probes > 0 => net.baselineSettled \in {"response", "rejected"}
  /\ \A j \in 1..Len(scan.results) :
        LET v == VerdictAgainst(scan.results[j], scan.baselineStatus, scan.baselineLength)
        IN /\ scan.results[j].detection = v.detection
           /\ scan.results[j].confidence = v.confidence

\* a step that fetches no baseline and leaves the baseline pair as it is
BaselineKept ==
  /\ scan'.baselineStatus = scan.baselineStatus
  /\ scan'.baselineLength = scan.baselineLength
  /\ net'.baseline = net.baseline

\* C16: a scan fetches its baseline once, from the target URL as it was
\* given, and that fetch has settled before the first probe is fetched; the
\* (status, length) pair of the baseline does not change once the sweep has
\* begun, and every result is classified against that pair.
C16_OneBaselineBeforeTheSweep ==
  /\ []BaselineHeldBySweep
  /\ [][(pc \in {"probeFetch", "probeBody"}) => BaselineKept]_vars

\* a completed scan with a baseline of status 200 and the length of the home
\* page, with a result that is POSSIBLE_LFI and a later one that is
\* NOT_VULNERABLE: both verdicts rest on the baseline
C16_Witness ==
  /\ Completed
  /\ net.baselineSettled = "response"
  /\ scan.baselineStatus = Some(200)
  /\ scan.baselineLength = Some(StrLen(HomePage))
  /\ \E j, k \in 1..Len(scan.results) :
        /\ j < k
        /\ scan.results[j].detection = "POSSIBLE_LFI"
        /\ scan.results[k].detection = "NOT_VULNERABLE"

----------------------------------------------------------------------------
(* The errors of handleRunLfi.                                             *)

\* a step that sets an error does so for a target URL that is blank or does
\* not parse, or for an empty parameter set
ErrorOnlyForUrlOrParameters ==
  (error' # error /\ error' # "")
    => /\ error' \in {ErrNoUrl, ErrInvalidUrl, ErrNoParameters}
       /\ TargetUrl.blank \/ InvalidUrlCase \/ NoParametersCase

\* a step that ends a running scan stores a summary and sets no error
ScanEndsWithSummary ==
  (pc # "idle" /\ pc' = "idle") => (lfiResults' # Null /\ error' = "")

\* C17: handleRunLfi sets an error only for a target URL that is no absolute
\* URL (blank, or not parsing) and for an empty parameter set.  Nothing else
\* does: a scan that got past those checks runs with no error whatever the
\* wordlist, the baseline fetch and the probe fetches did, and ends with a
\* summary.
C17_OnlyUrlAndParameterErrors ==
  /\ [][ErrorOnlyForUrlOrParameters]_vars
  /\ [][ScanEndsWithSummary]_vars
  /\ [](lfiLoading => error = "")

\* a scan on the catalog alone (the wordlist file could not be fetched), its
\* baseline fetch and one of its probe fetches rejected, ended with a summary
\* and no error
C17_Witness ==
  /\ Completed
  /\ error = ""
  /\ wordlist = buildLfiPayloadList(<<>>)
  /\ net.baselineSettled = "rejected"
  /\ net.rejected = 1
  /\ Len(lfiResults[1].results) = 2

----------------------------------------------------------------------------
(* The parameters of a scan.                                               *)

\* the keys of the query of the scanned URL, trimmed, in the order of the URL
TrimmedKeys == [j \in 1..Len(scan.parsedUrl.query) |-> Trim(scan.parsedUrl.query[j].k)]

\* the place of the first of the keys that is name
FirstKey(keys, name) ==
  CHOOSE j \in 1..Len(keys) :
    /\ keys[j] = name
    /\ \A k \in 1..(j - 1) : keys[k] # name

\* C18: the parameters of a scan are the one name typed into the parameter
\* field (trimmed), whatever the URL holds, when that name is not blank; and
\* otherwise the keys of the URL's query, trimmed, without the blank ones,
\* each once, in the order of their first occurrence.
C18_ParameterSelection ==
  scan.paramsToTest # <<>> =>
    LET ps == scan.paramsToTest
        keys == TrimmedKeys
    IN IF Trim(lfiParam) # ""
       THEN ps = <<Trim(lfiParam)>>
       ELSE /\ \A j, k \in 1..Len(ps) : j # k => ps[j] # ps[k]
            /\ \A j \in 1..Len(ps) :
                  ps[j] # "" /\ \E k \in 1..Len(keys) : keys[k] = ps[j]
            /\ \A k \in 1..Len(keys) :
                  keys[k] # "" => \E j \in 1..Len(ps) : ps[j] = keys[k]
            /\ \A j, k \in 1..Len(ps) :
                  j < k => FirstKey(keys, ps[j]) < FirstKey(keys, ps[k])

\* no name typed and the query id=1, " "=x, id=2, " file"=a: id and file
C18_Witness ==
  /\ Trim(lfiParam) = ""
  /\ pc = "probeFetch"
  /\ TrimmedKeys = <<"id", "", "id", "file">>
  /\ scan.paramsToTest = <<"id", "file">>

----------------------------------------------------------------------------
(* The test URLs.                                                          *)

\* the pairs of a query that are not named name, in their order
OtherPairs(q, name) ==
  LET NotNamed(e) == e.k # name
  IN SelectSeq(q, NotNamed)

\* the places of the pairs of a query named name
PlacesOf(q, name) == {j \in 1..Len(q) : q[j].k = name}

\* the test URL of result r against the URL of the scan
TestUrlCarriesPayload(r) ==
  LET q0 == scan.parsedUrl.query
      q == r.testedUrl.query
      name == r.parameter
  IN /\ r.testedUrl.base = scan.parsedUrl.base
     /\ OtherPairs(q, name) = OtherPairs(q0, name)
     /\ Cardinality(PlacesOf(q, name)) = 1
     /\ \A j \in PlacesOf(q, name) :
           /\ q[j].v = r.payload
           /\ IF PlacesOf(q0, name) # {}
              THEN \A k \in PlacesOf(q0, name) : j <= k
              ELSE j = Len(q0) + 1

\* C19: the test URL of every result is the scanned URL with the tested
\* parameter set to the payload: the parameter occurs once, with the payload
\* as its value, in the place of its first occurrence when the URL had it
\* and at the end when it had not, and the pairs of every other name are
\* the same, with the same values, in the same order.
C19_TestUrlConstruction ==
  \A j \in 1..Len(scan.results) : TestUrlCarriesPayload(scan.results[j])

\* the query id=1, " "=x, id=2, " file"=a probed for id and for file: id is
\* replaced where it first stood and its second pair is gone, file is
\* appended after the four pairs
C19_Witness ==
  /\ scan.paramsToTest = <<"id", "file">>
  /\ Len(scan.parsedUrl.query) = 4
  /\ \E j, k \in 1..Len(scan.results) :
        /\ scan.results[j].parameter = "id"
        /\ scan.results[j].testedUrl.query =
             <<[k |-> "id", v |-> scan.results[j].payload], [k |-> " ", v |-> "x"],
               [k |-> " file", v |-> "a"]>>
        /\ scan.results[k].parameter = "file"
        /\ scan.results[k].testedUrl.query =
             Append(scan.parsedUrl.query, [k |-> "file", v |-> scan.results[k].payload])

----------------------------------------------------------------------------
(* The payload list of a selection of categories.                          *)

PayloadsReturned == call.fn = "buildLfiPayloadList" /\ call.ret # Null

\* the categories a list of ids selects: all of them when it is empty
SelectedCategories(categoryIds) ==
  {j \in 1..Len(LFI_PAYLOAD_CATEGORIES) :
     \/ categoryIds = <<>>
     \/ \E k \in 1..Len(categoryIds) : categoryIds[k] = LFI_PAYLOAD_CATEGORIES[j].id}

\* payload is one of the payloads of category j
InCategory(payload, j) ==
  \E k \in 1..Len(LFI_PAYLOAD_CATEGORIES[j].payloads) :
     LFI_PAYLOAD_CATEGORIES[j].payloads[k] = payload

\* C20: for every selection of categories, the empty one included,
\* buildLfiPayloadList returns a list without duplicates, every entry of
\* which is a payload of a selected category (of any category when nothing
\* is selected) and in which every payload of every selected category occurs.
C20_PayloadListIsTheSelection ==
  PayloadsReturned =>
    LET list == call.ret[1]
        selected == SelectedCategories(call.args)
    IN /\ \A j, k \in 1..Len(list) : j # k => list[j] # list[k]
       /\ \A j \in 1..Len(list) : \E c \in selected : InCategory(list[j], c)
       /\ \A c \in selected : \A k \in 1..Len(LFI_PAYLOAD_CATEGORIES[c].payloads) :
             \E j \in 1..Len(list) : list[j] = LFI_PAYLOAD_CATEGORIES[c].payloads[k]

\* two categories selected, the later one named first and twice: the list
\* is as long as the two categories together and shorter than the catalog
C20_Witness ==
  /\ PayloadsReturned
  /\ call.args = <<"os-linux", "null-byte", "os-linux">>
  /\ Len(call.ret[1]) = Len(LFI_PAYLOAD_CATEGORIES[3].payloads) + Len(LFI_PAYLOAD_CATEGORIES[5].payloads)
  /\ Len(call.ret[1]) < Len(buildLfiPayloadList(<<>>))

\* the places of the table: <<category, place in the category>>
TablePlaces ==
  UNION {{<<c, k>> : k \in 1..Len(LFI_PAYLOAD_CATEGORIES[c].payloads)} :
           c \in 1..Len(LFI_PAYLOAD_CATEGORIES)}

\* the payload at a place of the table
PayloadAt(pl) == LFI_PAYLOAD_CATEGORIES[pl[1]].payloads[pl[2]]

\* the first place of a payload in the table
PlaceInTable(payload) ==
  CHOOSE pl \in TablePlaces :
    /\ PayloadAt(pl) = payload
    /\ \A other \in TablePlaces :
          PayloadAt(other) = payload => (PairBefore(pl, other) \/ pl = other)

\* C21: the list buildLfiPayloadList returns is in the order of the table:
\* of two entries the earlier one stands first in the table, by category in
\* the order the categories are declared and then by place in the category,
\* each payload counted where it first occurs, whatever the order of the
\* ids in the argument.
C21_PayloadListInTableOrder ==
  PayloadsReturned =>
    LET list == call.ret[1]
    IN \A j, k \in 1..Len(list) :
          j < k => PairBefore(PlaceInTable(list[j]), PlaceInTable(list[k]))

\* os-windows named before null-byte: the list begins with the first payload
\* of null-byte and ends with the last of os-windows
C21_Witness ==
  /\ PayloadsReturned
  /\ call.args = <<"os-windows", "null-byte">>
  /\ call.ret[1][1] = LFI_PAYLOAD_CATEGORIES[3].payloads[1]
  /\ Last(call.ret[1]) = Last(LFI_PAYLOAD_CATEGORIES[6].payloads)

----------------------------------------------------------------------------
(* The wordlist.                                                           *)

\* the entries of a list, as a set
Entries(list) == {list[j] : j \in 1..Len(list)}

\* list is the catalog followed by the entries of external that the catalog
\* has not, each once, in the order they are first met
MergedWith(list, external) ==
  LET catalog == buildLfiPayloadList(<<>>)
      rest == SubSeq(list, Len(catalog) + 1, Len(list))
  IN /\ Len(list) >= Len(catalog)
     /\ SubSeq(list, 1, Len(catalog)) = catalog
     /\ \A j, k \in 1..Len(list) : j # k => list[j] # list[k]
     /\ Entries(rest) = Entries(external) \ Entries(catalog)
     /\ \A j, k \in 1..Len(rest) :
           j < k => FirstKey(external, rest[j]) < FirstKey(external, rest[k])

\* the step that ends the loading of the wordlist
WordlistLoaded ==
  /\ LoadWordlistFetched => MergedWith(wordlist', WordlistLines(ExternalLines))
  /\ LoadWordlistFailed => wordlist' = buildLfiPayloadList(<<>>)
  /\ (LoadWordlistFetched \/ LoadWordlistFailed) => ~wordlistLoading'

\* C22: when the external wordlist is fetched the list becomes the catalog
\* followed by the external entries the catalog has not, without duplicates
\* and in first-seen order; when the fetch fails or is not OK the list
\* becomes the catalog alone; either way the loading ends, and no click
\* afterwards ends with the wordlist error.
C22_WordlistMergeAndFallback ==
  /\ [][WordlistLoaded]_vars
  /\ [](wordlistLoading \/ Len(wordlist) > 0)
  /\ [](error # ErrWordlist)

\* the file was fetched: the list is the catalog, then /etc/issue and
\* /etc/motd, the comment, the blank line and the repeated entries left out,
\* and a scan has run to its end on it
C22_Witness ==
  /\ ~wordlistLoading
  /\ wordlist = buildLfiPayloadList(<<>>) \o <<"/etc/issue", "/etc/motd">>
  /\ Completed
  /\ error = ""

----------------------------------------------------------------------------
(* The cap.                                                                *)

\* C23: the payload list of a scan is the wordlist truncated to the cap: the
\* first min(cap, |wordlist|) entries of the wordlist, in order, for every
\* value the cap takes.
C23_PayloadListIsTheCappedWordlist ==
  (pc # "idle" \/ Completed) =>
    scan.payloadList = SubSeq(wordlist, 1, Min(payloadCap, Len(wordlist)))

----------------------------------------------------------------------------
(* The progress counter.                                                   *)

InSweep == pc \in {"probeFetch", "probeBody"}

\* the counter of a sweep: the pairs attempted so far, of the whole matrix
ProgressCountsAttempts ==
  InSweep =>
    /\ currentProgress.total = Len(scan.paramsToTest) * Len(scan.payloadList)
    /\ currentProgress.current = net.probes
    /\ currentProgress.current = net.resolved + net.rejected + (IF pc = "probeFetch" THEN 1 ELSE 0)
    /\ currentProgress.current >= 1
    /\ currentProgress.current <= currentProgress.total

\* a step of the sweep: the counter goes up by one when another pair is
\* attempted and is left alone otherwise
ProgressStep ==
  (InSweep /\ InSweep') =>
    /\ currentProgress'.total = currentProgress.total
    /\ currentProgress'.current =
         currentProgress.current + (IF Len(net'.fetched) > Len(net.fetched) THEN 1 ELSE 0)
    /\ currentProgress'.current >= currentProgress.current

\* C24: during the sweep the progress counter (current, total) has total =
\* |parameters| x |payloadList| and current = the number of pairs attempted,
\* answered or failed; current goes up by exactly one with each pair
\* attempted, never goes down and never exceeds total.
C24_ProgressIsMonotone ==
  /\ []ProgressCountsAttempts
  /\ [][ProgressStep]_vars

\* the last pair of a 2 x 2 sweep is being fetched after two pairs failed
\* and one was answered: the counter stands at (4, 4)
C24_Witness ==
  /\ pc = "probeFetch"
  /\ currentProgress = [current |-> 4, total |-> 4]
  /\ net.rejected = 2
  /\ net.resolved = 1

----------------------------------------------------------------------------
(* The endpoint extractor.                                                 *)

Scraped == call.fn = "scrapeWebsite" /\ call.at = "done" /\ "endpoints" \in DOMAIN call.ret[1]

ScrapedEndpoints == call.ret[1].endpoints

\* every endpoint extracted so far, those of the result included
Extracted == IF call.fn = "scrapeWebsite" THEN call.endpoints ELSE <<>>

\* C25: no endpoint the extractor returns has a URL that matches one of the
\* exclusion patterns (a leading '#', 'javascript:', 'mailto:' or 'tel:', the
\* bare root path, a static-asset extension at the end), whether or not the
\* URL carried a query string or a fragment before it was normalized.
C25_NoReturnedUrlIsExcluded ==
  \A j \in 1..Len(Extracted) : isValidEndpoint(Extracted[j].url)

\* the place in the extraction of the first endpoint with this URL
FirstPlace(all, u) == CHOOSE j \in 1..Len(all) : all[j].url = u /\ \A k \in 1..(j - 1) : all[k].url # u

\* HTML first, then the external scripts, then the inline scripts
SourceRank(source) ==
  IF source = <<"HTML">> THEN 1 ELSE IF source = <<"Inline Script">> THEN 3 ELSE 2

\* C26: the endpoint list of a scrape result holds no URL twice, holds every
\* URL that was extracted, represents each by its first occurrence in the
\* extraction order (the HTML, then the external scripts, then the inline
\* scripts) and keeps that order; totalCount is the length of the list.
C26_ResultKeepsFirstOccurrences ==
  Scraped =>
    LET eps == ScrapedEndpoints
        all == call.endpoints
    IN /\ \A i, j \in 1..Len(eps) : eps[i].url = eps[j].url => i = j
       /\ {all[j].url : j \in 1..Len(all)} = {eps[i].url : i \in 1..Len(eps)}
       /\ \A i \in 1..Len(eps) : eps[i] = all[FirstPlace(all, eps[i].url)]
       /\ \A i, j \in 1..Len(eps) :
            i < j => FirstPlace(all, eps[i].url) < FirstPlace(all, eps[j].url)
       /\ \A i, j \in 1..Len(all) :
            i < j => SourceRank(all[i].source) <= SourceRank(all[j].source)
       /\ call.ret[1].totalCount = Len(eps)

\* "/api/users" is found in the HTML, in an external script and, written with
\* a query string, in an inline script: the result holds the one of the HTML
C26_Witness ==
  /\ Scraped
  /\ Cardinality({j \in 1..Len(call.endpoints) : call.endpoints[j].url = "/api/users"}) = 3
  /\ {call.endpoints[j].source[1] : j \in 1..Len(call.endpoints)} = {"HTML", "JS: ", "Inline Script"}
  /\ \E i \in 1..Len(ScrapedEndpoints) :
       ScrapedEndpoints[i].url = "/api/users" /\ ScrapedEndpoints[i].source = <<"HTML">>
  /\ call.ret[1].totalCount < Len(call.endpoints)

----------------------------------------------------------------------------
(* Responses that are not OK.                                              *)

BaselineNotOk == scan.baselineStatus # Null /\ ~IsOk(scan.baselineStatus[1])

\* C27: the body of a response that is not OK is taken as empty.  A result
\* with a non-OK status has contentLength 0, no indicator and an empty
\* sample, and is never CONFIRMED_LFI; a non-OK baseline has length 0, and no
\* result of its scan is POSSIBLE_LFI, the verdict of the length rule.
C27_NonOkBodyIsEmpty ==
  /\ \A j \in 1..Len(scan.results) :
        ~IsOk(scan.results[j].status)
          => /\ scan.results[j].contentLength = 0
             /\ scan.results[j].indicators = <<>>
             /\ scan.results[j].sample = ""
             /\ scan.results[j].detection # "CONFIRMED_LFI"
  /\ BaselineNotOk
       => /\ scan.baselineLength = Some(0)
          /\ \A j \in 1..Len(scan.results) : scan.results[j].detection # "POSSIBLE_LFI"

\* after a 404 baseline, a 200 probe with a body was recorded (it is not
\* POSSIBLE_LFI), and the latest probe answered 404 with a body that holds a
\* fingerprint: it is recorded with length 0 and no indicator
C27_Witness ==
  /\ scan.baselineStatus = Some(404)
  /\ \E j \in 1..Len(scan.results) :
        /\ IsOk(scan.results[j].status)
        /\ scan.results[j].contentLength > 0
        /\ scan.results[j].indicators = <<>>
  /\ ProbeHandled
  /\ res.status = 404
  /\ IndicatorsOf[res.body] # <<>>
  /\ Last(scan.results).status = 404
  /\ Last(scan.results).contentLength = 0
  /\ Last(scan.results).detection = "NOT_VULNERABLE"

----------------------------------------------------------------------------
(* The end of handleRunLfi.                                                *)

\* C28: whatever path handleRunLfi took (a blank URL, an invalid URL, a
\* wordlist not loaded, no parameter, a sweep run to its end with any mix of
\* failed fetches, an exception inside the try block), once it has returned
\* lfiLoading is false and the progress counter is (0, 0).
C28_ReturnedMeansNotLoading ==
  pc = "idle" => (~lfiLoading /\ currentProgress = NoProgress)

\* a sweep that had attempted pairs, one of them rejected, ended in the outer
\* catch: the error is the scan failure, nothing is loading, nothing counted
C28_Witness ==
  /\ pc = "idle"
  /\ error = ErrScanFailed
  /\ net.probes > 1
  /\ net.rejected > 0
  /\ lfiResults = Null
  /\ ~lfiLoading
  /\ currentProgress = NoProgress

----------------------------------------------------------------------------
(* sendToBackgroundWithRetry.                                              *)

\* the sends made so far, the pending one included
Sends == Len(call.outcomes) + (IF call.at = "send" THEN 1 ELSE 0)

\* C29: sendToBackgroundWithRetry with the default of one retry sends at most
\* twice.  Every send but the last failed with a message that holds 'context
\* invalidated', so a success and a failure of another kind end the call at
\* once; what the call returns or throws is the outcome of its last send, and
\* a failure is thrown when it is of another kind or is the second one.
C29_AtMostOneRetry ==
  (call.fn = "sendToBackgroundWithRetry" /\ call.args.retries = DefaultRetries)
    => /\ Sends <= 2
       /\ \A j \in 1..(Sends - 1) :
            /\ call.outcomes[j].kind = "rejected"
            /\ ContextInvalidated(MessageOf(call.outcomes[j].v))
       /\ call.at = "done"
            => /\ call.ret = Some(Last(call.outcomes))
               /\ Sends = Len(call.outcomes)
               /\ \/ Last(call.outcomes).kind = "resolved"
                  \/ ~ContextInvalidated(MessageOf(Last(call.outcomes).v))
                  \/ Sends = 2
       /\ call.at = "wait"
            => /\ Sends = 1
               /\ ContextInvalidated(MessageOf(call.outcomes[1].v))

\* the first send failed on an invalidated context, the second failed the
\* same way: the second failure is thrown, there is no third send
C29_Witness ==
  /\ call.fn = "sendToBackgroundWithRetry"
  /\ call.args.retries = DefaultRetries
  /\ call.at = "done"
  /\ Len(call.outcomes) = 2
  /\ call.outcomes[1] = Rejected(Failure("Extension context invalidated."))
  /\ call.outcomes[2] = Rejected(Failure("CONTEXT INVALIDATED"))
  /\ call.ret = Some(call.outcomes[2])

====
